---- MODULE Spec2Model ----
(***************************************************************************)
(* Model of the on-call roster maker (aubepine): the per-person            *)
(* availabilities with their adjacency rule (src/src/availabilities.rs),   *)
(* the calendar (src/src/calendar.rs) and the backtracking search with     *)
(* its orchestrator (src/src/lib.rs).                                      *)
(*                                                                         *)
(* A Date is the ordinal of the day in 2025 (1 = Wednesday 1 January), a   *)
(* HashMap/BTreeMap is a function whose DOMAIN is the set of keys, and a   *)
(* Vec is a sequence.                                                      *)
(***************************************************************************)
EXTENDS Integers, Sequences, FiniteSets, TLC

VARIABLES
    calendar,            \* CalendarMaker.calendar
    availabilities,      \* CalendarMaker.availabilities
    problematic_days,    \* CalendarMaker.problematic_days
    max_subcontractor,   \* CalendarMaker.max_subcontractor
    pc,                  \* where make_calendar / try_all_permutations stand
    i,                   \* make_calendar: the round, number of subcontractors added
    result,              \* make_calendar: arm taken on the last try_all_permutations
    perm,                \* try_all_permutations: index of the permutation
    t_problematic_days,  \* try_all_permutations: problematic_days
    solution_found_for_event, \* try_all_permutations: events solved in the permutation
    t_calendar,          \* try_all_permutations: calendar
    t_availabilities,    \* try_all_permutations: availabilities
    stack,               \* find_next: the frames of the recursion, innermost last
    ret,                 \* find_next: the tuple returned by the frame that just ended
    input,               \* the availabilities from_lines built
    her_availabilities,  \* one Availabilities, used directly
    before,              \* her_availabilities before the last call on it
    call                 \* the last call on her_availabilities

makerVars == <<calendar, availabilities, problematic_days, max_subcontractor, pc, i,
               result, perm, t_problematic_days, solution_found_for_event, t_calendar,
               t_availabilities, stack, ret, input>>

avVars == <<her_availabilities, before, call>>

vars == <<calendar, availabilities, problematic_days, max_subcontractor, pc, i,
          result, perm, t_problematic_days, solution_found_for_event, t_calendar,
          t_availabilities, stack, ret, input, her_availabilities, before, call>>

None == "None"

----------------------------------------------------------------------------
(* calendar.rs: Event, declared in this order (derive(Ord)).               *)

FirstDaily == "FirstDaily"
FirstNightly == "FirstNightly"
SecondDaily == "SecondDaily"
SecondNightly == "SecondNightly"

Event == <<FirstDaily, FirstNightly, SecondDaily, SecondNightly>>

EventSet == {Event[p] : p \in 1..Len(Event)}

----------------------------------------------------------------------------
(* time::Date::weekday, for ordinals of 2025 (and 0 = 31 December 2024).   *)

WeekdayNames ==
    <<"Monday", "Tuesday", "Wednesday", "Thursday", "Friday", "Saturday", "Sunday">>

Weekday(day) == WeekdayNames[((day + 1) % Len(WeekdayNames)) + 1]

----------------------------------------------------------------------------
(* availabilities.rs: Availabilities.days as a function Date -> Vec<Event> *)

RemoveAt(v, p) == SubSeq(v, 1, p - 1) \o SubSeq(v, p + 1, Len(v))

Position(v, event) ==
    IF \E p \in 1..Len(v) : v[p] = event
    THEN CHOOSE p \in 1..Len(v) : v[p] = event /\ \A q \in 1..(p - 1) : v[q] # event
    ELSE 0

(* mutant: an entry is created for a day that had none *)
PopAllInsert(days, day) ==
    [d \in (DOMAIN days) \cup {day} |-> IF d = day THEN <<>> ELSE days[d]]

PopAll(days, day) ==
    IF day \in DOMAIN days THEN [days EXCEPT ![day] = <<>>] ELSE days

(* mutant: the daily pair FirstDaily/SecondDaily is removed jointly *)
PopEventJoint(days, day, event) ==
    IF day \notin DOMAIN days
    THEN days
    ELSE LET twin == IF event = FirstDaily THEN SecondDaily
                     ELSE IF event = SecondDaily THEN FirstDaily ELSE event
         IN  [days EXCEPT ![day] = SelectSeq(days[day], LAMBDA e : e # event /\ e # twin)]

PopEvent(days, day, event) ==
    IF day \notin DOMAIN days
    THEN days
    ELSE LET p == Position(days[day], event)
         IN  IF p = 0 THEN days ELSE [days EXCEPT ![day] = RemoveAt(days[day], p)]

(* the Option<Event> returned by pop_event *)
Popped(days, day, event) ==
    IF day \in DOMAIN days /\ Position(days[day], event) # 0 THEN event ELSE None

(* mutant: the weekday is not looked at *)
IsSecondOnTheWeekendAnyDay(day, event) ==
    event = SecondDaily \/ event = SecondNightly

IsSecondOnTheWeekend(day, event) ==
    /\ (event = SecondDaily \/ event = SecondNightly)
    /\ (Weekday(day) = "Friday" \/ Weekday(day) = "Saturday" \/ Weekday(day) = "Sunday")

(* mutant: the next day is retained on a Sunday as well *)
RemainsNextDaySunday(day, event) ==
    /\ IsSecondOnTheWeekend(day, event)
    /\ (Weekday(day) = "Friday" \/ Weekday(day) = "Saturday" \/ Weekday(day) = "Sunday")

(* mutant: the next day is retained on a Saturday only *)
RemainsNextDaySaturdayOnly(day, event) ==
    /\ IsSecondOnTheWeekend(day, event)
    /\ Weekday(day) = "Saturday"

RemainsAvailableAsSecondNextDay(day, event) ==
    /\ IsSecondOnTheWeekend(day, event)
    /\ (Weekday(day) = "Friday" \/ Weekday(day) = "Saturday")

RemainsAvailableAsSecondPreviousDay(day, event) ==
    /\ IsSecondOnTheWeekend(day, event)
    /\ (Weekday(day) = "Saturday" \/ Weekday(day) = "Sunday")

(* lines 87-100: the requested day, and both neighbours outside the exception *)
UpdateDay(days, day, event) ==
    LET popped == PopEvent(days, day, event)
    IN  IF ~IsSecondOnTheWeekend(day, event)
        THEN PopAll(PopAll(PopAll(popped, day), day - 1), day + 1)
        ELSE PopEvent(PopEvent(popped, day, FirstDaily), day, FirstNightly)

(* lines 102-109 *)
UpdateNextDay(days, day, event) ==
    IF RemainsAvailableAsSecondNextDay(day, event)
    THEN PopEvent(PopEvent(days, day + 1, FirstDaily), day + 1, FirstNightly)
    ELSE PopAll(days, day + 1)

(* lines 111-118 *)
UpdatePreviousDay(days, day, event) ==
    IF RemainsAvailableAsSecondPreviousDay(day, event)
    THEN PopEvent(PopEvent(days, day - 1, FirstDaily), day - 1, FirstNightly)
    ELSE PopAll(days, day - 1)

(* mutant: the day is cleared when one of the neighbours is not retained *)
UpdateAvailabilitiesClearDay(days, day, event) ==
    LET done == UpdatePreviousDay(UpdateNextDay(UpdateDay(days, day, event), day, event),
                                  day, event)
    IN  IF RemainsAvailableAsSecondNextDay(day, event)
           /\ RemainsAvailableAsSecondPreviousDay(day, event)
        THEN done
        ELSE PopAll(done, day)

UpdateAvailabilities(days, day, event) ==
    UpdatePreviousDay(UpdateNextDay(UpdateDay(days, day, event), day, event), day, event)


(* map_from_str: a line is the level and one token per day *)
LevelOf(level_str) ==
    CASE level_str = "1ère SF jour" -> FirstDaily
      [] level_str = "1ère SF nuit" -> FirstNightly
      [] level_str = "2ème SF jour" -> SecondDaily
      [] level_str = "2ème SF nuit" -> SecondNightly

(* mutant: an empty token is the one that makes the day available *)
MapFromStrEmptyAvailable(from, line) ==
    [day \in from..(from + Len(line.tokens) - 1) |->
        IF line.tokens[day - from + 1] = "" THEN <<LevelOf(line.level)>> ELSE <<>>]

(* lines 70-80 *)
MapFromStr(from, line) ==
    [day \in from..(from + Len(line.tokens) - 1) |->
        IF line.tokens[day - from + 1] = "" THEN <<>> ELSE <<LevelOf(line.level)>>]

(* mutant: the first token is for the day after `from` *)
FromStrNextDay(from, line) == MapFromStr(from + 1, line)

FromStr(from, line) == MapFromStr(from, line)

(* mutant: the entry of the new row replaces the one the day had *)
MergeReplace(days, from, line) ==
    LET new_map == MapFromStr(from, line)
    IN  [day \in (DOMAIN days) \cup (DOMAIN new_map) |->
            IF day \in DOMAIN new_map THEN new_map[day] ELSE days[day]]

Merge(days, from, line) ==
    LET new_map == MapFromStr(from, line)
    IN  [day \in (DOMAIN days) \cup (DOMAIN new_map) |->
            IF day \in DOMAIN new_map
            THEN IF day \in DOMAIN days THEN days[day] \o new_map[day] ELSE new_map[day]
            ELSE days[day]]

----------------------------------------------------------------------------
(* calendar.rs: Calendar.  The inner HashMap<Event, Name> is a function on *)
(* the four events whose value is None where the map has no key.           *)

RECURSIVE SortedDays(_)
SortedDays(S) ==
    IF S = {} THEN <<>>
    ELSE LET m == CHOOSE x \in S : \A y \in S : x <= y
         IN  <<m>> \o SortedDays(S \ {m})

NoOnCall == [e \in EventSet |-> None]

NewCalendar(from, to) ==
    [from |-> from, to |-> to, days |-> [d \in from..to |-> NoOnCall]]

GetFor(cal, day, event) ==
    IF day \in DOMAIN cal.days THEN cal.days[day][event] ELSE None

(* mutant: the day's map is replaced by one that holds the new entry only *)
SetForAlone(cal, day, event, name) ==
    [cal EXCEPT !.days =
        [d \in (DOMAIN cal.days) \cup {day} |->
            IF d = day THEN [NoOnCall EXCEPT ![event] = name] ELSE cal.days[d]]]

(* mutant: the roster is left as it was *)
SetForNothing(cal, day, event, name) == cal

SetFor(cal, day, event, name) ==
    [cal EXCEPT !.days =
        [d \in (DOMAIN cal.days) \cup {day} |->
            IF d = day
            THEN [(IF d \in DOMAIN cal.days THEN cal.days[d] ELSE NoOnCall)
                     EXCEPT ![event] = name]
            ELSE cal.days[d]]]

(* mutant: the days where some event, whichever, has no assignee *)
GetEmptyDaysOfAnyEvent(cal, event) ==
    SortedDays({d \in DOMAIN cal.days : \E e \in EventSet : cal.days[d][e] = None})

GetEmptyDays(cal, event) ==
    SortedDays({d \in DOMAIN cal.days : cal.days[d][event] = None})

----------------------------------------------------------------------------
(* lib.rs: the selection of the days and of the names                      *)

(* Ord of String on the names in use: their position in this sequence *)
Names == <<"Alice", "Bob", "Charlie", "Dave", "EXT-0", "EXT-1", "EXT-2", "EXT-3", "Erin">>

NameRank(name) == CHOOSE r \in 1..Len(Names) : Names[r] = name

SortedNames(S) ==
    LET ranks == SortedDays({NameRank(n) : n \in S})
    IN  [r \in 1..Len(ranks) |-> Names[ranks[r]]]

(* mutant: whoever has an entry for the day is a candidate *)
CandidatesAnyEvent(avs, day, event) ==
    {name \in DOMAIN avs : day \in DOMAIN avs[name]}

(* lines 357-366: the persons whose availabilities of the day hold the event *)
Candidates(avs, day, event) ==
    {name \in DOMAIN avs :
        day \in DOMAIN avs[name]
        /\ \E p \in 1..Len(avs[name][day]) : avs[name][day][p] = event}

(* mutant: the days tied with the first day, not with the minimum *)
GetDaysTiedWithFirstDay(avs, within_days, event) ==
    LET days == SortedDays({within_days[p] : p \in 1..Len(within_days)})
        persons_len(day) == Cardinality(Candidates(avs, day, event))
        kept == SelectSeq(days, LAMBDA day : persons_len(day) = persons_len(days[1]))
    IN  [p \in 1..Len(kept) |-> <<kept[p], SortedNames(Candidates(avs, kept[p], event))>>]

(* lines 348-383 *)
GetDaysWithLeastAvailabilities(avs, within_days, event) ==
    LET days == SortedDays({within_days[p] : p \in 1..Len(within_days)})
        persons_len(day) == Cardinality(Candidates(avs, day, event))
        least == CHOOSE n \in {persons_len(days[p]) : p \in 1..Len(days)} :
                    \A p \in 1..Len(days) : n <= persons_len(days[p])
        kept == SelectSeq(days, LAMBDA day : persons_len(day) = least)
    IN  [p \in 1..Len(kept) |-> <<kept[p], SortedNames(Candidates(avs, kept[p], event))>>]

(* lines 357-366: the Vec `persons` of a day, pushed in the order in which  *)
(* the HashMap of the persons is enumerated                                *)
PersonsOfDay(avs, order, day, event) ==
    SelectSeq(order, LAMBDA name : name \in Candidates(avs, day, event))

(* mutant: the names of a day are left as enumerated *)
GetDaysUnsorted(avs, order, within_days, event) ==
    LET days == SortedDays({within_days[p] : p \in 1..Len(within_days)})
        persons_len(day) == Len(PersonsOfDay(avs, order, day, event))
        least == CHOOSE n \in {persons_len(days[p]) : p \in 1..Len(days)} :
                    \A p \in 1..Len(days) : n <= persons_len(days[p])
        kept == SelectSeq(days, LAMBDA day : persons_len(day) = least)
    IN  [p \in 1..Len(kept) |-> <<kept[p], PersonsOfDay(avs, order, kept[p], event)>>]

(* lines 348-383 with the enumeration of the persons made explicit: `order` *)
(* is the sequence of the keys as the HashMap yields them                   *)
GetDaysEnumerated(avs, order, within_days, event) ==
    LET days == SortedDays({within_days[p] : p \in 1..Len(within_days)})
        persons(day) == PersonsOfDay(avs, order, day, event)
        sorted_names(day) == SortedNames({persons(day)[p] : p \in 1..Len(persons(day))})
        least == CHOOSE n \in {Len(persons(days[p])) : p \in 1..Len(days)} :
                    \A p \in 1..Len(days) : n <= Len(persons(days[p]))
        kept == SelectSeq(days, LAMBDA day : Len(persons(day)) = least)
    IN  [p \in 1..Len(kept) |-> <<kept[p], sorted_names(kept[p])>>]

IsOnCall(on_call, name) == \E event \in EventSet : on_call[event] = name

OnCallCount(name, cal) ==
    Cardinality({d \in DOMAIN cal.days : IsOnCall(cal.days[d], name)})

(* mutant: the count is of the events held, not of the days *)
SortNamesByLeastEvents(names, cal) ==
    LET events(name) ==
            Cardinality({de \in (DOMAIN cal.days) \X EventSet : cal.days[de[1]][de[2]] = name})
        key(p) == events(names[p]) * (Len(names) + 1) + p
        keys == SortedDays({key(p) : p \in 1..Len(names)})
    IN  [r \in 1..Len(keys) |-> names[keys[r] % (Len(names) + 1)]]

(* sorted_by_key is stable: equal counts keep the order of `names` *)
SortNamesByLeastOnCall(names, cal) ==
    LET key(p) == OnCallCount(names[p], cal) * (Len(names) + 1) + p
        keys == SortedDays({key(p) : p \in 1..Len(names)})
    IN  [r \in 1..Len(keys) |-> names[keys[r] % (Len(names) + 1)]]

IsWeekend(day) == Weekday(day) = "Saturday" \/ Weekday(day) = "Sunday"

AbsDiff(a, b) == IF a >= b THEN a - b ELSE b - a

(* mutant: a second-level pair is exempt only when both days are week-end days *)
CheckForPrematureStopBothWeekend(days_and_names, event) ==
    /\ Len(days_and_names) >= 2
    /\ \E p \in 1..(Len(days_and_names) - 1) :
          /\ Len(days_and_names[p][2]) = 1
          /\ ~( (IsWeekend(days_and_names[p][1]) /\ IsWeekend(days_and_names[p + 1][1]))
                /\ (event = SecondDaily \/ event = SecondNightly) )
          /\ AbsDiff(days_and_names[p][1], days_and_names[p + 1][1]) = 1
          /\ days_and_names[p][2] = days_and_names[p + 1][2]

(* lines 312-340 *)
(* mutant: the two days need not be adjacent *)
CheckForPrematureStopAnyDays(days_and_names, event) ==
    /\ Len(days_and_names) >= 2
    /\ \E p \in 1..(Len(days_and_names) - 1) :
          /\ Len(days_and_names[p][2]) = 1
          /\ ~( (IsWeekend(days_and_names[p][1]) \/ IsWeekend(days_and_names[p + 1][1]))
                /\ (event = SecondDaily \/ event = SecondNightly) )
          /\ days_and_names[p][2] = days_and_names[p + 1][2]

CheckForPrematureStop(days_and_names, event) ==
    /\ Len(days_and_names) >= 2
    /\ \E p \in 1..(Len(days_and_names) - 1) :
          /\ Len(days_and_names[p][2]) = 1
          /\ ~( (IsWeekend(days_and_names[p][1]) \/ IsWeekend(days_and_names[p + 1][1]))
                /\ (event = SecondDaily \/ event = SecondNightly) )
          /\ AbsDiff(days_and_names[p][1], days_and_names[p + 1][1]) = 1
          /\ days_and_names[p][2] = days_and_names[p + 1][2]

(* itertools permutations: lexicographic in the positions *)
RECURSIVE PermutationsOf(_)
PermutationsOf(s) ==
    IF Len(s) <= 1 THEN <<s>>
    ELSE LET without(p) == SubSeq(s, 1, p - 1) \o SubSeq(s, p + 1, Len(s))
             RECURSIVE from(_)
             from(p) ==
                 IF p > Len(s) THEN <<>>
                 ELSE LET sub == PermutationsOf(without(p))
                      IN  [q \in 1..Len(sub) |-> <<s[p]>> \o sub[q]] \o from(p + 1)
         IN  from(1)

EventPermutations == PermutationsOf(Event)

(* the orders in which a HashMap with these keys may be enumerated *)
Enumerations(avs) ==
    LET all == PermutationsOf(SortedNames(DOMAIN avs))
    IN  {all[p] : p \in 1..Len(all)}

(* add_subco_for_this_day_and_event *)
EventStr(event) ==
    CASE event = FirstDaily -> "1ère SF jour"
      [] event = FirstNightly -> "1ère SF nuit"
      [] event = SecondDaily -> "2ème SF jour"
      [] event = SecondNightly -> "2ème SF nuit"

SubcoLine(cal, day_ordinal, event) ==
    [level |-> EventStr(event),
     tokens |-> [p \in 1..(day_ordinal - cal.from) |-> "x"]
                \o <<"">>
                \o [p \in 1..(cal.to - day_ordinal) |-> "x"]]

AddSubcoForThisDayAndEvent(cal, avs, subco_name, day_ordinal, event) ==
    LET line == SubcoLine(cal, day_ordinal, event)
    IN  [name \in (DOMAIN avs) \cup {subco_name} |->
            IF name = subco_name
            THEN IF name \in DOMAIN avs
                 THEN Merge(avs[name], cal.from, line)
                 ELSE FromStr(cal.from, line)
            ELSE avs[name]]

(* BTreeMap<(Date, Event), u8>: keys ordered by date, then by event *)
EventRank(event) == CHOOSE r \in 1..Len(Event) : Event[r] = event

KeyRank(key) == key[1] * (Len(Event) + 1) + EventRank(key[2])

(* mutant: the first of the least *)
LeastProblematic(pd) ==
    CHOOSE key \in DOMAIN pd :
        \A other \in DOMAIN pd :
            \/ pd[key] < pd[other]
            \/ pd[other] = pd[key] /\ KeyRank(key) <= KeyRank(other)

(* Iterator::max_by_key: the last of the greatest *)
MostProblematic(pd) ==
    CHOOSE key \in DOMAIN pd :
        \A other \in DOMAIN pd :
            \/ pd[other] < pd[key]
            \/ pd[other] = pd[key] /\ KeyRank(other) <= KeyRank(key)

(* lines 134-139: entry().and_modify(+1).or_insert(0), on a u8 *)
RecordProblematic(pd, key) ==
    [k \in (DOMAIN pd) \cup {key} |->
        IF k = key
        THEN IF k \in DOMAIN pd THEN (pd[k] + 1) % 256 ELSE 0
        ELSE pd[k]]

NoProblematicDays == [k \in {} |-> 0]


----------------------------------------------------------------------------
(* lib.rs: find_next, one frame of `stack` per call in progress.  An       *)
(* Option is a sequence of at most one element.                            *)

Frame(avs, cal, event, recursion_depth, assigned) ==
    [availabilities |-> avs, calendar |-> cal, event |-> event,
     recursion_depth |-> recursion_depth,
     problematic_day |-> <<>>,
     days_and_names |-> <<>>, day_index |-> 0,
     sorted_by_least_on_call |-> <<>>, name_index |-> 0,
     assigned |-> assigned,      \* the (day, name) the caller set before this call
     at |-> "enter"]

Top == stack[Len(stack)]

Caller == SubSeq(stack, 1, Len(stack) - 1)

Returned(avs, cal, problematic_day, recursion_depth) ==
    <<[availabilities |-> avs, calendar |-> cal, problematic_day |-> problematic_day,
      recursion_depth |-> recursion_depth]>>

(* mutant: an event counts as solved as soon as one of its days is filled *)
IsSolvedSomeDay(cal, event) ==
    \E d \in DOMAIN cal.days : cal.days[d][event] # None

(* get_empty_days(event).is_empty() *)
IsSolved(cal, event) == GetEmptyDays(cal, event) = <<>>

(* lines 226-245 for the day at day_index and, past the last day, line 272: *)
(* the frame about to try the first name of the day, or what is returned    *)
ForDay(f, day_index) ==
    IF day_index > Len(f.days_and_names)
    THEN [frame |-> <<>>,
          ret |-> Returned(f.availabilities, f.calendar, f.problematic_day,
                           f.recursion_depth)]
    ELSE LET day == f.days_and_names[day_index][1]
             names == f.days_and_names[day_index][2]
         IN  IF names = <<>>
             THEN [frame |-> <<>>,
                   ret |-> Returned(f.availabilities, f.calendar, <<day>>,
                                    f.recursion_depth + 1)]
             ELSE [frame |-> <<[f EXCEPT !.problematic_day = <<day>>,
                                         !.day_index = day_index,
                                         !.sorted_by_least_on_call =
                                             SortNamesByLeastOnCall(names, f.calendar),
                                         !.name_index = 1, !.at = "name"]>>,
                   ret |-> <<>>]

(* lines 208-245: the call starts, up to the first name of the first day *)
FindNextEnter ==
    /\ pc = "find_next" /\ stack # <<>> /\ Top.at = "enter"
    /\ LET f == Top
           remaining_days == GetEmptyDays(f.calendar, f.event)
           days_and_names ==
               GetDaysWithLeastAvailabilities(f.availabilities, remaining_days, f.event)
       IN  IF remaining_days = <<>>
           THEN /\ stack' = Caller
                /\ ret' = Returned(f.availabilities, f.calendar, f.problematic_day,
                                   f.recursion_depth)
           ELSE IF CheckForPrematureStop(days_and_names, f.event)
           THEN /\ stack' = Caller
                /\ ret' = Returned(f.availabilities, f.calendar, f.problematic_day,
                                   f.recursion_depth + 1)
           ELSE LET first == ForDay([f EXCEPT !.days_and_names = days_and_names], 1)
                IN  /\ stack' = Caller \o first.frame
                    /\ ret' = first.ret
    /\ UNCHANGED <<calendar, availabilities, problematic_days, max_subcontractor, pc, i,
                   result, perm, t_problematic_days, solution_found_for_event,
                   t_calendar, t_availabilities, input, avVars>>

(* lines 246-264: set the person for the day, update her availabilities, recurse *)
FindNextName ==
    /\ pc = "find_next" /\ stack # <<>> /\ Top.at = "name"
    /\ LET f == Top
           day == f.days_and_names[f.day_index][1]
           name == f.sorted_by_least_on_call[f.name_index]
           new_calendar == SetFor(f.calendar, day, f.event, name)
           new_availabilities ==
               [f.availabilities EXCEPT
                   ![name] = UpdateAvailabilities(f.availabilities[name], day, f.event)]
       IN  stack' = Caller \o
               <<[f EXCEPT !.at = "call"],
                 Frame(new_availabilities, new_calendar, f.event, f.recursion_depth + 1,
                       <<day, name>>)>>
    /\ ret' = <<>>
    /\ UNCHANGED <<calendar, availabilities, problematic_days, max_subcontractor, pc, i,
                   result, perm, t_problematic_days, solution_found_for_event,
                   t_calendar, t_availabilities, input, avVars>>

(* mutant: the caller goes on with the roster and the availabilities the   *)
(* call returned                                                           *)
ResumedInPlace(f, returned) ==
    [f EXCEPT !.problematic_day = returned.problematic_day,
              !.calendar = returned.calendar,
              !.availabilities = returned.availabilities]

(* lines 257-264: of what the call returned, the roster and the            *)
(* availabilities go to variables of the loop body and the problematic day *)
(* to the caller's own                                                     *)
Resumed(f, returned) == [f EXCEPT !.problematic_day = returned.problematic_day]

(* lines 254-272: the call returned; on a success it is returned at once,  *)
(* otherwise the next name, or the next day, is tried                       *)
FindNextResume ==
    /\ pc = "find_next" /\ stack # <<>> /\ Top.at = "call" /\ ret # <<>>
    /\ LET f == Resumed(Top, ret[1])
       IN  IF IsSolved(ret[1].calendar, f.event)
           THEN /\ stack' = Caller
                /\ ret' = Returned(ret[1].availabilities, ret[1].calendar, <<>>,
                                   ret[1].recursion_depth)
           ELSE IF f.name_index < Len(f.sorted_by_least_on_call)
           THEN /\ stack' = Caller \o
                      <<[f EXCEPT !.name_index = f.name_index + 1, !.at = "name"]>>
                /\ ret' = <<>>
           ELSE LET following == ForDay(f, f.day_index + 1)
                IN  /\ stack' = Caller \o following.frame
                    /\ ret' = following.ret
    /\ UNCHANGED <<calendar, availabilities, problematic_days, max_subcontractor, pc, i,
                   result, perm, t_problematic_days, solution_found_for_event,
                   t_calendar, t_availabilities, input, avVars>>

(* lines 208-272 as a function: whether find_next returns a roster where   *)
(* the event has no empty day; with `pruning` FALSE it is the same search  *)
(* without the lines 214-223                                               *)
RECURSIVE FindNextSolves(_, _, _, _)
FindNextSolves(avs, cal, event, pruning) ==
    LET remaining_days == GetEmptyDays(cal, event)
        days_and_names == GetDaysWithLeastAvailabilities(avs, remaining_days, event)
        solves(day, name) ==
            FindNextSolves([avs EXCEPT ![name] = UpdateAvailabilities(avs[name], day, event)],
                           SetFor(cal, day, event, name), event, pruning)
    IN  IF remaining_days = <<>> THEN TRUE
        ELSE IF pruning /\ CheckForPrematureStop(days_and_names, event) THEN FALSE
        ELSE \E p \in 1..Len(days_and_names) :
                /\ \A q \in 1..p : days_and_names[q][2] # <<>>
                /\ \E r \in 1..Len(days_and_names[p][2]) :
                      solves(days_and_names[p][1], days_and_names[p][2][r])

----------------------------------------------------------------------------
(* lib.rs: make_calendar, try_all_permutations, make_calendar_for_event    *)

MaxSubcontractor == 1

MakeCalendar ==
    /\ pc = "from_lines"
    /\ \E max \in 0..MaxSubcontractor : max_subcontractor' = max
    /\ i' = 0
    /\ pc' = "try_all_permutations"
    /\ UNCHANGED <<calendar, availabilities, problematic_days, result, perm,
                   t_problematic_days, solution_found_for_event, t_calendar,
                   t_availabilities, stack, ret, input, avVars>>

(* lines 104-120: the first permutation starts from the maker's own state *)
TryAllPermutations ==
    /\ pc = "try_all_permutations"
    /\ t_problematic_days' = NoProblematicDays
    /\ perm' = 1
    /\ solution_found_for_event' = <<>>
    /\ t_calendar' = calendar
    /\ t_availabilities' = availabilities
    /\ pc' = "make_calendar_for_event"
    /\ UNCHANGED <<calendar, availabilities, problematic_days, max_subcontractor, i,
                   result, stack, ret, input, avVars>>

CurrentEvent == EventPermutations[perm][Len(solution_found_for_event) + 1]

(* lines 122-127, 150-157: the next event of the permutation *)
MakeCalendarForEvent ==
    /\ pc = "make_calendar_for_event"
    /\ stack' = <<Frame(t_availabilities, t_calendar, CurrentEvent, 0, <<>>)>>
    /\ ret' = <<>>
    /\ pc' = "find_next"
    /\ UNCHANGED <<calendar, availabilities, problematic_days, max_subcontractor, i,
                   result, perm, t_problematic_days, solution_found_for_event,
                   t_calendar, t_availabilities, input, avVars>>

(* lines 156-161: what make_calendar_for_event hands back *)
ForEventCalendar ==
    IF IsSolved(ret[1].calendar, CurrentEvent) THEN ret[1].calendar ELSE t_calendar

ForEventAvailabilities ==
    IF IsSolved(ret[1].calendar, CurrentEvent) THEN ret[1].availabilities ELSE t_availabilities

ForEventProblematicDay ==
    IF IsSolved(ret[1].calendar, CurrentEvent) THEN <<>> ELSE ret[1].problematic_day

(* mutant: the permutation counts as solved from its third event on *)
AllEventsSolvedButOne(found) == Len(found) >= Len(Event) - 1

(* line 143 *)
AllEventsSolved(found) == Len(found) = Len(Event)

(* lines 128-129: the event is solved and the permutation goes on *)
EventSolved ==
    /\ pc = "find_next" /\ stack = <<>> /\ ret # <<>>
    /\ IsSolved(ForEventCalendar, CurrentEvent)
    /\ ~AllEventsSolved(Append(solution_found_for_event, CurrentEvent))
    /\ solution_found_for_event' = Append(solution_found_for_event, CurrentEvent)
    /\ t_calendar' = ForEventCalendar
    /\ t_availabilities' = ForEventAvailabilities
    /\ ret' = <<>>
    /\ pc' = "make_calendar_for_event"
    /\ UNCHANGED <<calendar, availabilities, problematic_days, max_subcontractor, i,
                   result, perm, t_problematic_days, stack, input, avVars>>

(* lines 128-129, 143-144 and 79-83: the last event is solved, the solution *)
(* is returned and make_calendar adopts it                                  *)
SolutionFound ==
    /\ pc = "find_next" /\ stack = <<>> /\ ret # <<>>
    /\ IsSolved(ForEventCalendar, CurrentEvent)
    /\ AllEventsSolved(Append(solution_found_for_event, CurrentEvent))
    /\ solution_found_for_event' = Append(solution_found_for_event, CurrentEvent)
    /\ t_calendar' = ForEventCalendar
    /\ t_availabilities' = ForEventAvailabilities
    /\ calendar' = ForEventCalendar
    /\ availabilities' = ForEventAvailabilities
    /\ result' = "Ok"
    /\ ret' = <<>>
    /\ pc' = "returned"
    /\ UNCHANGED <<problematic_days, max_subcontractor, i, perm, t_problematic_days,
                   stack, input, avVars>>

(* lines 130-141: the problematic day of a failed event is counted *)
ProblematicDaysAfterFailure ==
    IF ForEventProblematicDay # <<>>
    THEN RecordProblematic(t_problematic_days, <<ForEventProblematicDay[1], CurrentEvent>>)
    ELSE t_problematic_days

(* mutant: the next permutation goes on from the roster and the            *)
(* availabilities the failed one has left                                  *)
PermutationFailedGoesOn ==
    /\ pc = "find_next" /\ stack = <<>> /\ ret # <<>>
    /\ ~IsSolved(ForEventCalendar, CurrentEvent)
    /\ perm < Len(EventPermutations)
    /\ t_problematic_days' = ProblematicDaysAfterFailure
    /\ perm' = perm + 1
    /\ solution_found_for_event' = <<>>
    /\ ret' = <<>>
    /\ pc' = "make_calendar_for_event"
    /\ UNCHANGED <<calendar, availabilities, problematic_days, max_subcontractor, i,
                   result, stack, input, avVars, t_calendar, t_availabilities>>

(* lines 130-146, 113-120: the event failed, the next permutation starts *)
PermutationFailed ==
    /\ pc = "find_next" /\ stack = <<>> /\ ret # <<>>
    /\ ~IsSolved(ForEventCalendar, CurrentEvent)
    /\ perm < Len(EventPermutations)
    /\ t_problematic_days' = ProblematicDaysAfterFailure
    /\ perm' = perm + 1
    /\ solution_found_for_event' = <<>>
    /\ t_calendar' = calendar
    /\ t_availabilities' = availabilities
    /\ ret' = <<>>
    /\ pc' = "make_calendar_for_event"
    /\ UNCHANGED <<calendar, availabilities, problematic_days, max_subcontractor, i,
                   result, stack, input, avVars>>

(* lines 130-147 and 56-78: the last permutation failed; make_calendar      *)
(* stores the problematic days and adds a subcontractor for the most        *)
(* problematic one, unwrap() aborting when none was recorded                *)
AllPermutationsFailed ==
    /\ pc = "find_next" /\ stack = <<>> /\ ret # <<>>
    /\ ~IsSolved(ForEventCalendar, CurrentEvent)
    /\ perm = Len(EventPermutations)
    /\ LET err == ProblematicDaysAfterFailure
       IN  /\ t_problematic_days' = err
           /\ problematic_days' = err
           /\ result' = "Err"
           /\ IF DOMAIN err = {}
              THEN /\ pc' = "panicked"
                   /\ UNCHANGED <<availabilities, i>>
              ELSE LET most == MostProblematic(err)
                   IN  /\ availabilities' =
                             AddSubcoForThisDayAndEvent(calendar, availabilities,
                                                        "EXT-" \o ToString(i),
                                                        most[1], most[2])
                       /\ i' = i + 1
                       /\ pc' = IF i + 1 > max_subcontractor
                                THEN "returned" ELSE "try_all_permutations"
    /\ ret' = <<>>
    /\ UNCHANGED <<calendar, max_subcontractor, perm, solution_found_for_event,
                   t_calendar, t_availabilities, stack, input, avVars>>

----------------------------------------------------------------------------
(* from_lines: the range of the header and the rows of the persons.  Each  *)
(* person has rows for some levels, all with the same tokens.  A header    *)
(* whose first and last day are the same day gives a one-day range.        *)

NDays == 2

StartDays == 2..5

Staffs == {{"Alice", "Bob", "Charlie"}, {"Alice", "Bob", "Charlie", "Dave", "Erin"}}

LevelChoices(name) ==
    CASE name = "Alice" ->
            {<<"1ère SF jour", "1ère SF nuit", "2ème SF jour", "2ème SF nuit">>}
      [] name = "Bob" ->
            {<<"1ère SF jour", "1ère SF nuit">>,
             <<"1ère SF jour", "1ère SF jour", "2ème SF jour">>}
      [] name = "Charlie" ->
            {<<"2ème SF jour", "2ème SF nuit">>}
      [] OTHER ->
            {<<"1ère SF jour", "1ère SF nuit">>}

TokenChoices(name, n) ==
    IF name \in {"Alice", "Bob", "Charlie"}
    THEN [1..n -> {"", "x"}]
    ELSE {[p \in 1..n |-> "x"]}

(* lines 423-432: from_str on the first row of a name, merge on the others *)
RECURSIVE MergeRows(_, _, _, _)
MergeRows(days, from, levels, tokens) ==
    IF levels = <<>> THEN days
    ELSE MergeRows(Merge(days, from, [level |-> Head(levels), tokens |-> tokens]),
                   from, Tail(levels), tokens)

FromRows(from, levels, tokens) ==
    MergeRows(FromStr(from, [level |-> Head(levels), tokens |-> tokens]),
              from, Tail(levels), tokens)

PersonChoices(name, from, to) ==
    {FromRows(from, levels, tokens) :
        levels \in LevelChoices(name), tokens \in TokenChoices(name, to - from + 1)}

(* every HashMap<Name, Availabilities> of the staff with such rows *)
RECURSIVE StaffChoices(_, _, _)
StaffChoices(staff, from, to) ==
    IF staff = {} THEN {[name \in {} |-> <<>>]}
    ELSE LET name == CHOOSE n \in staff : TRUE
         IN  {[n \in staff |-> IF n = name THEN her ELSE others[n]] :
                 her \in PersonChoices(name, from, to),
                 others \in StaffChoices(staff \ {name}, from, to)}

NoAvailabilities == [d \in {} |-> <<>>]

IdleAv ==
    /\ her_availabilities = NoAvailabilities
    /\ before = NoAvailabilities
    /\ call = [op |-> "none", day |-> 0, event |-> None, popped |-> None]

Init ==
    /\ \E from \in StartDays : \E n \in 1..NDays : \E staff \in Staffs :
          /\ calendar = NewCalendar(from, from + n - 1)
          /\ availabilities \in StaffChoices(staff, from, from + n - 1)
    /\ input = availabilities
    /\ problematic_days = NoProblematicDays
    /\ max_subcontractor = 0
    /\ pc = "from_lines"
    /\ i = 0
    /\ result = None
    /\ perm = 0
    /\ t_problematic_days = NoProblematicDays
    /\ solution_found_for_event = <<>>
    /\ t_calendar = calendar
    /\ t_availabilities = availabilities
    /\ stack = <<>>
    /\ ret = <<>>
    /\ IdleAv

Next ==
    \/ MakeCalendar
    \/ TryAllPermutations
    \/ MakeCalendarForEvent
    \/ FindNextEnter
    \/ FindNextName
    \/ FindNextResume
    \/ EventSolved
    \/ SolutionFound
    \/ PermutationFailed
    \/ AllPermutationsFailed

Spec == Init /\ [][Next]_vars

(* make_calendar runs in one thread and nothing suspends it: as long as it *)
(* has neither returned nor panicked, a step can be taken and is taken.    *)
(* It is the weak fairness of Next, WF_vars(Next), with the condition      *)
(* ENABLED <<Next>>_vars written as the state predicate it amounts to.     *)
Running == pc \notin {"returned", "panicked"}

SpecLive == Spec /\ (<>[]Running => []<><<Next>>_vars)

----------------------------------------------------------------------------
(* One person's availabilities, used directly: one call on availabilities  *)
(* as constructed.  The entries are Vecs that from_str followed by merges  *)
(* of level rows produce, a repeated level row included.                   *)

NAvDays == 3

FromDays == 1..Len(WeekdayNames)

EntryChoices ==
    { <<>>,
      <<FirstDaily>>,
      <<SecondDaily, SecondNightly>>,
      <<FirstDaily, FirstNightly, SecondDaily, SecondNightly>>,
      <<FirstDaily, FirstDaily, SecondDaily>>,
      <<FirstNightly, SecondNightly, SecondNightly>> }

InitAv ==
    /\ \E from \in FromDays :
          her_availabilities \in [from..(from + NAvDays - 1) -> EntryChoices]
    /\ before = her_availabilities
    /\ call = [op |-> "new", day |-> 0, event |-> None, popped |-> None]
    /\ calendar = NewCalendar(1, 0)
    /\ availabilities = [name \in {} |-> NoAvailabilities]
    /\ input = availabilities
    /\ problematic_days = NoProblematicDays
    /\ max_subcontractor = 0
    /\ pc = "none"
    /\ i = 0
    /\ result = None
    /\ perm = 0
    /\ t_problematic_days = NoProblematicDays
    /\ solution_found_for_event = <<>>
    /\ t_calendar = calendar
    /\ t_availabilities = availabilities
    /\ stack = <<>>
    /\ ret = <<>>

AvCallDays == (DOMAIN her_availabilities) \cup
              {d - 1 : d \in DOMAIN her_availabilities} \cup
              {d + 1 : d \in DOMAIN her_availabilities}

CallUpdateAvailabilities ==
    \E day \in AvCallDays, event \in EventSet :
        /\ call.op = "new"
        /\ before' = her_availabilities
        /\ her_availabilities' = UpdateAvailabilities(her_availabilities, day, event)
        /\ call' = [op |-> "update_availabilities", day |-> day, event |-> event,
                    popped |-> None]
        /\ UNCHANGED makerVars

CallPopEvent ==
    \E day \in AvCallDays, event \in EventSet :
        /\ call.op = "new"
        /\ before' = her_availabilities
        /\ her_availabilities' = PopEvent(her_availabilities, day, event)
        /\ call' = [op |-> "pop_event", day |-> day, event |-> event,
                    popped |-> Popped(her_availabilities, day, event)]
        /\ UNCHANGED makerVars

CallPopAll ==
    \E day \in AvCallDays :
        /\ call.op = "new"
        /\ before' = her_availabilities
        /\ her_availabilities' = PopAll(her_availabilities, day)
        /\ call' = [op |-> "pop_all", day |-> day, event |-> None, popped |-> None]
        /\ UNCHANGED makerVars

NextAv == CallUpdateAvailabilities \/ CallPopEvent \/ CallPopAll

SpecAv == InitAv /\ [][NextAv]_vars

----------------------------------------------------------------------------
(* The selection functions of lib.rs and find_next called directly, the    *)
(* way the unit tests of lib.rs call them: one call per constructed input. *)

NSelDays == 3

SelNames == {"Alice", "Bob", "Charlie"}

SelTokens == [1..NSelDays -> {"", "x"}]

(* from_lines on a header of NSelDays days from 1 January and level rows   *)
(* for Alice and Bob (first level, daily) and Charlie (either level)       *)
SelRows(name) ==
    IF name = "Charlie"
    THEN {<<"1ère SF jour">>, <<"2ème SF jour", "2ème SF nuit">>}
    ELSE {<<"1ère SF jour">>}

SelPerson(name) ==
    {FromRows(1, levels, tokens) : levels \in SelRows(name), tokens \in SelTokens}

SelAvailabilities ==
    {[name \in SelNames |->
        CASE name = "Alice" -> a [] name = "Bob" -> b [] OTHER -> c] :
        a \in SelPerson("Alice"), b \in SelPerson("Bob"), c \in SelPerson("Charlie")}

(* what get_empty_days returns: days of the calendar in ascending order *)
SelWithinDays == {SortedDays(S) : S \in (SUBSET (1..NSelDays)) \ {{}}}

(* HashMap<Event, Name> of one day of a roster *)
OnCallChoices ==
    { NoOnCall,
      [NoOnCall EXCEPT ![FirstDaily] = "Alice"],
      [NoOnCall EXCEPT ![FirstDaily] = "Alice", ![SecondDaily] = "Alice"],
      [NoOnCall EXCEPT ![FirstDaily] = "Bob", ![FirstNightly] = "Charlie"],
      [NoOnCall EXCEPT ![SecondNightly] = "Charlie"] }

SelCalendars ==
    {[from |-> 1, to |-> NSelDays, days |-> days] :
        days \in [1..NSelDays -> OnCallChoices]}

(* the names of a day: distinct names, in any order *)
SelNameLists ==
    UNION {{PermutationsOf(SortedNames(S))[p] :
               p \in 1..Len(PermutationsOf(SortedNames(S)))} : S \in SUBSET SelNames}

(* the candidates of a day, in lexical order *)
SelCandidateLists == {SortedNames(S) : S \in SUBSET {"Alice", "Bob"}}

(* date-ordered lists of days of the calendar, each with its candidates *)
SelDaysAndNames(days) ==
    UNION {{[p \in 1..Cardinality(S) |-> <<SortedDays(S)[p], names[SortedDays(S)[p]]>>] :
               names \in [S -> SelCandidateLists]} : S \in SUBSET days}

(* find_next on given availabilities, roster and event *)
FindScenario(from, to, avs, event) ==
    [from |-> from, to |-> to, availabilities |-> avs, event |-> event]

(* FirstDaily over 1-3 January 2025: Alice available on days 1 and 3, Bob  *)
(* on day 2                                                                *)
TwoPersons ==
    FindScenario(1, 3,
        [name \in {"Alice", "Bob"} |->
            IF name = "Alice"
            THEN FromStr(1, [level |-> "1ère SF jour", tokens |-> <<"x", "", "x">>])
            ELSE FromStr(1, [level |-> "1ère SF jour", tokens |-> <<"", "x", "">>])],
        FirstDaily)

(* FirstDaily over 1-7 January 2025: Alice available on days 1, 2, 3, 4    *)
(* and 7, Bob on days 3, 6 and 7, Charlie on days 2, 5 and 6               *)
ThreePersons ==
    FindScenario(1, 7,
        [name \in SelNames |->
            CASE name = "Alice" ->
                    FromStr(1, [level |-> "1ère SF jour",
                                tokens |-> <<"x", "x", "x", "x", "", "", "x">>])
              [] name = "Bob" ->
                    FromStr(1, [level |-> "1ère SF jour",
                                tokens |-> <<"", "", "x", "", "", "x", "x">>])
              [] OTHER ->
                    FromStr(1, [level |-> "1ère SF jour",
                                tokens |-> <<"", "x", "", "", "x", "x", "">>])],
        FirstDaily)

(* the rows of test_make_calendar_2_persons and _3_persons as from_lines   *)
(* reads them                                                              *)
TwoPersonsRows ==
    FindScenario(1, 3,
        [name \in {"Alice", "Bob"} |->
            IF name = "Alice"
            THEN FromStr(1, [level |-> "1ère SF jour", tokens |-> <<"", "x", "">>])
            ELSE FromStr(1, [level |-> "1ère SF jour", tokens |-> <<"", "", "x", "">>])],
        FirstDaily)

ThreePersonsRows ==
    FindScenario(1, 7,
        [name \in SelNames |->
            CASE name = "Alice" ->
                    FromStr(1, [level |-> "1ère SF jour",
                                tokens |-> <<"", "", "", "", "x", "x", "">>])
              [] name = "Bob" ->
                    FromStr(1, [level |-> "1ère SF jour",
                                tokens |-> <<"x", "x", "", "x", "x", "", "">>])
              [] OTHER ->
                    FromStr(1, [level |-> "1ère SF jour",
                                tokens |-> <<"x", "", "x", "x", "", "", "x">>])],
        FirstDaily)

(* a header of NSelDays days from Friday 3 January 2025 and the rows of     *)
(* Charlie alone                                                           *)
WeekendScenarios ==
    {FindScenario(3, 3 + NSelDays - 1,
                  [name \in {"Charlie"} |-> FromRows(3, levels, tokens)], event) :
        levels \in SelRows("Charlie"), tokens \in SelTokens,
        event \in {FirstDaily, SecondDaily}}

FindScenarios ==
    {TwoPersons, ThreePersons, TwoPersonsRows, ThreePersonsRows}
        \cup {FindScenario(1, NSelDays, avs, event) :
                 avs \in SelAvailabilities, event \in {FirstDaily, SecondDaily}}
        \cup WeekendScenarios

NewCall == [op |-> "new"]

InitSel ==
    /\ \/ /\ pc = "get_days_with_least_availabilities"
          /\ calendar = NewCalendar(1, NSelDays)
          /\ availabilities \in SelAvailabilities
          /\ stack = <<>>
       \/ /\ pc = "sort_names_by_least_on_call"
          /\ calendar \in SelCalendars
          /\ availabilities = [name \in {} |-> NoAvailabilities]
          /\ stack = <<>>
       \/ /\ pc = "check_for_premature_stop"
          /\ \E from \in FromDays : calendar = NewCalendar(from, from + NSelDays - 1)
          /\ availabilities = [name \in {} |-> NoAvailabilities]
          /\ stack = <<>>
       \/ /\ pc = "find_next"
          /\ \E s \in FindScenarios :
                /\ calendar = NewCalendar(s.from, s.to)
                /\ availabilities = s.availabilities
                /\ stack = <<Frame(s.availabilities, NewCalendar(s.from, s.to),
                                   s.event, 0, <<>>)>>
    /\ input = availabilities
    /\ problematic_days = NoProblematicDays
    /\ max_subcontractor = 0
    /\ i = 0
    /\ result = None
    /\ perm = 0
    /\ t_problematic_days = NoProblematicDays
    /\ solution_found_for_event = <<>>
    /\ t_calendar = calendar
    /\ t_availabilities = availabilities
    /\ ret = <<>>
    /\ her_availabilities = NoAvailabilities
    /\ before = NoAvailabilities
    /\ call = NewCall

CallGetDaysWithLeastAvailabilities ==
    /\ pc = "get_days_with_least_availabilities" /\ call = NewCall
    /\ \E within_days \in SelWithinDays, event \in {FirstDaily, SecondDaily},
          order \in Enumerations(availabilities) :
        /\ call' = [op |-> "get_days_with_least_availabilities",
                    within_days |-> within_days, event |-> event, order |-> order,
                    result |-> GetDaysEnumerated(availabilities, order,
                                                 within_days, event)]
        /\ UNCHANGED <<makerVars, her_availabilities, before>>

CallSortNamesByLeastOnCall ==
    /\ pc = "sort_names_by_least_on_call" /\ call = NewCall
    /\ \E names \in SelNameLists :
        /\ call' = [op |-> "sort_names_by_least_on_call", names |-> names,
                    result |-> SortNamesByLeastOnCall(names, calendar)]
        /\ UNCHANGED <<makerVars, her_availabilities, before>>

CallCheckForPrematureStop ==
    /\ pc = "check_for_premature_stop" /\ call = NewCall
    /\ \E days_and_names \in SelDaysAndNames(DOMAIN calendar.days), event \in EventSet :
        /\ call' = [op |-> "check_for_premature_stop",
                    days_and_names |-> days_and_names, event |-> event,
                    result |-> CheckForPrematureStop(days_and_names, event)]
        /\ UNCHANGED <<makerVars, her_availabilities, before>>

NextSel ==
    \/ CallGetDaysWithLeastAvailabilities
    \/ CallSortNamesByLeastOnCall
    \/ CallCheckForPrematureStop
    \/ FindNextEnter
    \/ FindNextName
    \/ FindNextResume

SpecSel == InitSel /\ [][NextSel]_vars

----------------------------------------------------------------------------
(* from_file: the allocations already fixed in the file are taken before   *)
(* the search (lib.rs:88-101), then the search runs for an event on the    *)
(* roster and the availabilities they leave.                               *)

NSeedDays == 3

MaxAllocations == 2

(* Thursday 2 to Saturday 4 January 2025, or Friday 3 to Sunday 5 *)
SeedFromDays == {2, 3}

SeedNames == {"Alice", "Bob"}

SeedLevels ==
    {<<"1ère SF jour", "1ère SF nuit", "2ème SF jour", "2ème SF nuit">>,
     <<"1ère SF jour", "2ème SF jour">>}

SeedTokens == {[p \in 1..NSeedDays |-> "x"], [p \in 1..NSeedDays |-> IF p = 2 THEN "" ELSE "x"]}

SeedPerson(from) ==
    {FromRows(from, levels, tokens) : levels \in SeedLevels, tokens \in SeedTokens}

SeedAvailabilities(from) == [SeedNames -> SeedPerson(from)]

(* the (day, event) pairs of the lines of a person: any day of the header, *)
(* any level                                                               *)
OnCallAllocations(cal) == (DOMAIN cal.days) \X EventSet

NoAllocation == [op |-> "take_initial_allocations", applied |-> <<>>]

(* mutant: the allocation is set in the calendar only *)
AllocatedWithoutUpdate(avs, name, day, event) == avs

(* lines 97-98: her availabilities are updated for the day and the event *)
AllocatedAvailabilities(avs, name, day, event) ==
    [avs EXCEPT ![name] = UpdateAvailabilities(avs[name], day, event)]

InitSeed ==
    /\ \E from \in SeedFromDays :
          /\ calendar = NewCalendar(from, from + NSeedDays - 1)
          /\ availabilities \in SeedAvailabilities(from)
    /\ pc = "take_initial_allocations"
    /\ stack = <<>>
    /\ input = availabilities
    /\ problematic_days = NoProblematicDays
    /\ max_subcontractor = 0
    /\ i = 0
    /\ result = None
    /\ perm = 0
    /\ t_problematic_days = NoProblematicDays
    /\ solution_found_for_event = <<>>
    /\ t_calendar = calendar
    /\ t_availabilities = availabilities
    /\ ret = <<>>
    /\ her_availabilities = NoAvailabilities
    /\ before = NoAvailabilities
    /\ call = NoAllocation

(* lines 95-99: one (day, event) of a person's line is set in the calendar *)
(* and her availabilities are updated                                      *)
TakeInitialAllocation ==
    /\ pc = "take_initial_allocations"
    /\ Len(call.applied) < MaxAllocations
    /\ \E name \in DOMAIN availabilities, allocation \in OnCallAllocations(calendar) :
          LET day == allocation[1]
              event == allocation[2]
          IN  /\ calendar' = SetFor(calendar, day, event, name)
              /\ availabilities' = AllocatedAvailabilities(availabilities, name, day, event)
              /\ before' = availabilities[name]
              /\ her_availabilities' = availabilities'[name]
              /\ call' = [call EXCEPT !.applied =
                            Append(@, [day |-> day, event |-> event, name |-> name])]
    /\ t_calendar' = calendar'
    /\ t_availabilities' = availabilities'
    /\ UNCHANGED <<problematic_days, max_subcontractor, pc, i, result, perm,
                   t_problematic_days, solution_found_for_event, stack, ret, input>>

(* lines 150-157: the search for the first event of a permutation starts   *)
(* from the roster and the availabilities the allocations left             *)
SearchAfterAllocations ==
    /\ pc = "take_initial_allocations"
    /\ \E event \in EventSet :
          stack' = <<Frame(availabilities, calendar, event, 0, <<>>)>>
    /\ pc' = "find_next"
    /\ UNCHANGED <<calendar, availabilities, problematic_days, max_subcontractor, i,
                   result, perm, t_problematic_days, solution_found_for_event,
                   t_calendar, t_availabilities, ret, input, avVars>>

NextSeed ==
    \/ TakeInitialAllocation
    \/ SearchAfterAllocations
    \/ FindNextEnter
    \/ FindNextName
    \/ FindNextResume

SpecSeed == InitSeed /\ [][NextSeed]_vars

----------------------------------------------------------------------------
(* The reading of the input: from_str and merge on the level rows of one   *)
(* person, pop_event on what they built, and from_lines on whole contents. *)

NParseDays == 2

MaxRows == 3

ParseFromDays == {1, 4}

LevelStrs == {"1ère SF jour", "1ère SF nuit", "2ème SF jour", "2ème SF nuit"}

(* a level row: the level and one token per day, "" or "x" *)
ParseLines ==
    UNION {[level : LevelStrs, tokens : [1..n -> {"", "x"}]] : n \in 1..NParseDays}

(* the header (month, year, days) and the rows (name, level, tokens) *)
Content(days, rows) == [month |-> "JANVIER", year |-> 2025, days |-> days, rows |-> rows]

Row(name, level, tokens) == [name |-> name, level |-> level, tokens |-> tokens]

(* "JANVIER,2025,1,2,3,4,5\r\nAlice,1ère SF jour,,,,x,x\r\nAlice,1ère SF nuit,x,,,x,\r\n" *)
TestFromLines ==
    Content(<<1, 2, 3, 4, 5>>,
            <<Row("Alice", "1ère SF jour", <<"", "", "", "x", "x">>),
              Row("Alice", "1ère SF nuit", <<"x", "", "", "x", "">>)>>)

FromLinesContents ==
    {TestFromLines,
     Content(<<1, 5>>, TestFromLines.rows),
     Content(<<2, 3, 4>>, <<TestFromLines.rows[2], TestFromLines.rows[1]>>),
     Content(<<1, 2, 3, 4, 5>>,
             <<Row("Alice", "1ère SF jour", <<"", "", "", "x", "x">>),
               Row("Bob", "1ère SF nuit", <<"x", "", "", "x", "">>)>>)}

(* lines 423-432: the rows are read in order, the first row of a name with *)
(* from_str and her other rows with merge                                  *)
RECURSIVE ReadRows(_, _, _)
ReadRows(avs, from, rows) ==
    IF rows = <<>> THEN avs
    ELSE LET row == Head(rows)
             line == [level |-> row.level, tokens |-> row.tokens]
         IN  ReadRows([name \in (DOMAIN avs) \cup {row.name} |->
                          IF name = row.name
                          THEN IF name \in DOMAIN avs
                               THEN Merge(avs[name], from, line)
                               ELSE FromStr(from, line)
                          ELSE avs[name]],
                      from, Tail(rows))

(* lines 386-441: the first day of the header is `from`, its last day `to` *)
FromLines(content) ==
    LET from == content.days[1]
        to == content.days[Len(content.days)]
    IN  [calendar |-> NewCalendar(from, to),
         availabilities |-> ReadRows([name \in {} |-> NoAvailabilities], from,
                                     content.rows)]

NoRows(from) == [op |-> "new", from |-> from, rows |-> <<>>, day |-> 0, event |-> None]

InitParse ==
    /\ pc \in {"from_str", "from_lines"}
    /\ \E from \in ParseFromDays : call = NoRows(from)
    /\ her_availabilities = NoAvailabilities
    /\ before = NoAvailabilities
    /\ calendar = NewCalendar(1, 0)
    /\ availabilities = [name \in {} |-> NoAvailabilities]
    /\ input = availabilities
    /\ problematic_days = NoProblematicDays
    /\ max_subcontractor = 0
    /\ i = 0
    /\ result = None
    /\ perm = 0
    /\ t_problematic_days = NoProblematicDays
    /\ solution_found_for_event = <<>>
    /\ t_calendar = calendar
    /\ t_availabilities = availabilities
    /\ stack = <<>>
    /\ ret = <<>>

CallFromStr ==
    /\ pc = "from_str" /\ call.op = "new"
    /\ \E line \in ParseLines :
          /\ her_availabilities' = FromStr(call.from, line)
          /\ call' = [call EXCEPT !.op = "from_str", !.rows = <<line>>]
    /\ before' = her_availabilities
    /\ UNCHANGED makerVars

CallMerge ==
    /\ pc = "from_str" /\ call.op \in {"from_str", "merge"}
    /\ Len(call.rows) < MaxRows
    /\ \E line \in ParseLines :
          /\ her_availabilities' = Merge(her_availabilities, call.from, line)
          /\ call' = [call EXCEPT !.op = "merge", !.rows = Append(@, line)]
    /\ before' = her_availabilities
    /\ UNCHANGED makerVars

CallPopEventOfRows ==
    /\ pc = "from_str" /\ call.op \in {"from_str", "merge"}
    /\ \E day \in DOMAIN her_availabilities, event \in EventSet :
          /\ her_availabilities' = PopEvent(her_availabilities, day, event)
          /\ call' = [call EXCEPT !.op = "pop_event", !.day = day, !.event = event]
    /\ before' = her_availabilities
    /\ UNCHANGED makerVars

CallFromLines ==
    /\ pc = "from_lines" /\ call.op = "new"
    /\ \E content \in FromLinesContents :
          /\ calendar' = FromLines(content).calendar
          /\ availabilities' = FromLines(content).availabilities
          /\ call' = [op |-> "from_lines", content |-> content]
    /\ input' = availabilities'
    /\ t_calendar' = calendar'
    /\ t_availabilities' = availabilities'
    /\ UNCHANGED <<problematic_days, max_subcontractor, pc, i, result, perm,
                   t_problematic_days, solution_found_for_event, stack, ret,
                   her_availabilities, before>>

NextParse == CallFromStr \/ CallMerge \/ CallPopEventOfRows \/ CallFromLines

SpecParse == InitParse /\ [][NextParse]_vars

----------------------------------------------------------------------------
(* Vocabulary of the properties.                                           *)

Contains(v, e) == \E p \in 1..Len(v) : v[p] = e

Count(v, e) == Cardinality({p \in 1..Len(v) : v[p] = e})

RECURSIVE IsSubsequence(_, _)
IsSubsequence(a, b) ==
    IF a = <<>> THEN TRUE
    ELSE IF b = <<>> THEN FALSE
    ELSE IF Head(a) = Head(b) THEN IsSubsequence(Tail(a), Tail(b))
    ELSE IsSubsequence(a, Tail(b))

(* a is b less one occurrence of each event of `removed` that b contains,  *)
(* everything else kept in its order                                       *)
IsLessOneOf(a, b, removed) ==
    /\ IsSubsequence(a, b)
    /\ \A e \in EventSet :
          Count(a, e) = IF e \in removed /\ Count(b, e) > 0
                        THEN Count(b, e) - 1 ELSE Count(b, e)

AllFour == <<FirstDaily, FirstNightly, SecondDaily, SecondNightly>>

Updated == call.op = "update_availabilities"

HasEntry(d) == d \in DOMAIN before

SecondLevelOnFriSatSun ==
    /\ call.event \in {SecondDaily, SecondNightly}
    /\ Weekday(call.day) \in {"Friday", "Saturday", "Sunday"}


----------------------------------------------------------------------------
(* The rosters of the search: the maker's, the permutation's, those of the *)
(* calls in progress and the one just returned.                            *)

Rosters ==
    {calendar, t_calendar}
        \cup {stack[k].calendar : k \in 1..Len(stack)}
        \cup {ret[k].calendar : k \in 1..Len(ret)}

SecondLevel == {SecondDaily, SecondNightly}

(* no event twice in the entry of a day *)
NoRepeatedEvent(av) ==
    \A d \in DOMAIN av : \A e \in EventSet : Count(av[d], e) <= 1

(* at most one row per person and duty level *)
OneRowPerLevel(avs) ==
    \A name \in DOMAIN avs : NoRepeatedEvent(avs[name])

Adopted == pc = "returned" /\ result = "Ok"

(* C1: when make_calendar adopts a solution, the adopted roster has an     *)
(* assignee for each of the four events on every day of the date range.    *)
C1_AdoptedRosterComplete ==
    Adopted =>
        \A e \in EventSet :
            /\ GetEmptyDays(calendar, e) = <<>>
            /\ \A d \in calendar.from..calendar.to :
                  d \in DOMAIN calendar.days /\ calendar.days[d][e] # None

C1_Witness ==
    /\ Adopted
    /\ calendar.to > calendar.from
    /\ \A e \in EventSet : \A d \in calendar.from..calendar.to :
          calendar.days[d][e] # None

(* C2: every assignment of find_next gives (day, event) to a person whose  *)
(* availabilities of that day held the event when the assignment was made, *)
(* and in the availabilities the search of the event started from.         *)
C2_AssignedFromCandidates ==
    \A k \in 2..Len(stack) :
        LET day == stack[k].assigned[1]
            name == stack[k].assigned[2]
            event == stack[k].event
        IN  /\ stack[k].calendar.days[day][event] = name
            /\ stack[k - 1].calendar.days[day][event] = None
            /\ name \in DOMAIN stack[k - 1].availabilities
            /\ day \in DOMAIN stack[k - 1].availabilities[name]
            /\ Contains(stack[k - 1].availabilities[name][day], event)
            /\ Contains(stack[1].availabilities[name][day], event)
            /\ Contains(t_availabilities[name][day], event)

C2_Witness ==
    /\ Len(stack) >= 3
    /\ stack[2].assigned[2] # stack[3].assigned[2]
    /\ stack[3].calendar.days[stack[2].assigned[1]][stack[3].event] = stack[2].assigned[2]
    /\ stack[3].calendar.days[stack[3].assigned[1]][stack[3].event] = stack[3].assigned[2]

(* C3: from availabilities with at most one row per person and duty level, *)
(* no roster of the search has a person on two calendar-adjacent days,     *)
(* unless both events are second-level and the days are Friday-Saturday or *)
(* Saturday-Sunday.                                                        *)
C3_NoAdjacentDays ==
    OneRowPerLevel(input) =>
        \A cal \in Rosters : \A d \in DOMAIN cal.days : \A e1, e2 \in EventSet :
            (/\ d + 1 \in DOMAIN cal.days
             /\ cal.days[d][e1] # None
             /\ cal.days[d][e1] = cal.days[d + 1][e2]) =>
                /\ e1 \in SecondLevel /\ e2 \in SecondLevel
                /\ Weekday(d) \in {"Friday", "Saturday"}

C3_Witness ==
    /\ OneRowPerLevel(input)
    /\ Adopted
    /\ \E d \in DOMAIN calendar.days :
          /\ Weekday(d) = "Friday"
          /\ d + 1 \in DOMAIN calendar.days
          /\ calendar.days[d][SecondDaily] = calendar.days[d + 1][SecondNightly]

(* C4: no roster of the search has a person on two events of the same day, *)
(* unless the two events are SecondDaily and SecondNightly and the day is  *)
(* a Friday, Saturday or Sunday.                                           *)
C4_NoTwoEventsSameDay ==
    \A cal \in Rosters : \A d \in DOMAIN cal.days : \A e1, e2 \in EventSet :
        (e1 # e2 /\ cal.days[d][e1] # None /\ cal.days[d][e1] = cal.days[d][e2]) =>
            /\ {e1, e2} = SecondLevel
            /\ Weekday(d) \in {"Friday", "Saturday", "Sunday"}

----------------------------------------------------------------------------
(* C5: outside the second-level Friday/Saturday/Sunday case,               *)
(* update_availabilities(day, event) leaves an empty event set on day-1,   *)
(* day and day+1, for each of those days that has an entry.                *)
C5_ClearsDayAndNeighbours ==
    (Updated /\ ~SecondLevelOnFriSatSun) =>
        \A d \in {call.day - 1, call.day, call.day + 1} :
            HasEntry(d) => her_availabilities[d] = <<>>

C5_Witness ==
    /\ Updated
    /\ call.event = SecondNightly
    /\ Weekday(call.day) = "Thursday"
    /\ \A d \in {call.day - 1, call.day, call.day + 1} :
          HasEntry(d) /\ before[d] # <<>> /\ her_availabilities[d] = <<>>

(* C6: for a second-level event on a Friday, Saturday or Sunday, day+1     *)
(* loses only FirstDaily and FirstNightly when day is Friday or Saturday   *)
(* and is cleared when day is Sunday; day-1 loses only FirstDaily and      *)
(* FirstNightly when day is Saturday or Sunday and is cleared when day is  *)
(* Friday.                                                                 *)
C6_WeekendNeighbours ==
    (Updated /\ SecondLevelOnFriSatSun) =>
        /\ HasEntry(call.day + 1) =>
              IF Weekday(call.day) \in {"Friday", "Saturday"}
              THEN IsLessOneOf(her_availabilities[call.day + 1], before[call.day + 1],
                               {FirstDaily, FirstNightly})
              ELSE her_availabilities[call.day + 1] = <<>>
        /\ HasEntry(call.day - 1) =>
              IF Weekday(call.day) \in {"Saturday", "Sunday"}
              THEN IsLessOneOf(her_availabilities[call.day - 1], before[call.day - 1],
                               {FirstDaily, FirstNightly})
              ELSE her_availabilities[call.day - 1] = <<>>

C6_Witness ==
    /\ Updated
    /\ call.event = SecondNightly
    /\ Weekday(call.day) = "Sunday"
    /\ HasEntry(call.day - 1) /\ HasEntry(call.day + 1)
    /\ before[call.day - 1] = AllFour
    /\ her_availabilities[call.day - 1] = <<SecondDaily, SecondNightly>>
    /\ before[call.day + 1] = <<SecondDaily, SecondNightly>>
    /\ her_availabilities[call.day + 1] = <<>>

(* C7 as stated: SecondDaily on a Friday leaves the person available for   *)
(* SecondDaily and SecondNightly on the following Saturday and Sunday and  *)
(* for neither FirstDaily nor FirstNightly on either of the two days       *)
(* (read on an availability that repeats no event).                        *)
C7_Original ==
    (/\ Updated /\ call.event = SecondDaily /\ Weekday(call.day) = "Friday"
     /\ NoRepeatedEvent(before)) =>
        \A d \in {call.day + 1, call.day + 2} :
            HasEntry(d) =>
                /\ \A e \in {SecondDaily, SecondNightly} :
                      Contains(before[d], e) => Contains(her_availabilities[d], e)
                /\ ~Contains(her_availabilities[d], FirstDaily)
                /\ ~Contains(her_availabilities[d], FirstNightly)

(* C7 amended: SecondDaily on a Friday takes FirstDaily and FirstNightly   *)
(* (one occurrence of each) from the following Saturday and nothing else,  *)
(* and leaves the following Sunday exactly as it was.                      *)
C7_FridaySecondDaily ==
    (Updated /\ call.event = SecondDaily /\ Weekday(call.day) = "Friday") =>
        /\ HasEntry(call.day + 1) =>
              IsLessOneOf(her_availabilities[call.day + 1], before[call.day + 1],
                          {FirstDaily, FirstNightly})
        /\ HasEntry(call.day + 2) =>
              her_availabilities[call.day + 2] = before[call.day + 2]

C7_Witness ==
    /\ Updated /\ call.event = SecondDaily /\ Weekday(call.day) = "Friday"
    /\ HasEntry(call.day + 1) /\ HasEntry(call.day + 2)
    /\ before[call.day + 1] = AllFour
    /\ her_availabilities[call.day + 1] = <<SecondDaily, SecondNightly>>
    /\ her_availabilities[call.day + 2] = AllFour

(* C8 as stated: after update_availabilities(day, event) the person has no *)
(* remaining event on day, whatever the event and the weekday (read on an  *)
(* availability that repeats no event).                                    *)
C8_Original ==
    (Updated /\ HasEntry(call.day) /\ NoRepeatedEvent(before)) =>
        her_availabilities[call.day] = <<>>

(* C8 amended: day is left empty, except for a second-level event on a     *)
(* Friday, Saturday or Sunday, where day loses (one occurrence of) the     *)
(* event, FirstDaily and FirstNightly and keeps its other entries.         *)
C8_DayItself ==
    (Updated /\ HasEntry(call.day)) =>
        IF SecondLevelOnFriSatSun
        THEN IsLessOneOf(her_availabilities[call.day], before[call.day],
                         {call.event, FirstDaily, FirstNightly})
        ELSE her_availabilities[call.day] = <<>>

C8_Witness ==
    /\ Updated /\ call.event = SecondDaily /\ Weekday(call.day) = "Friday"
    /\ HasEntry(call.day)
    /\ before[call.day] = AllFour
    /\ her_availabilities[call.day] = <<SecondNightly>>

(* C9 as stated: pop_event(day, FirstDaily) on a day containing both       *)
(* FirstDaily and SecondDaily also removes SecondDaily, and conversely     *)
(* (read on an availability that repeats no event).                        *)
C9_Original ==
    (/\ call.op = "pop_event"
     /\ NoRepeatedEvent(before)
     /\ HasEntry(call.day)
     /\ Contains(before[call.day], FirstDaily)
     /\ Contains(before[call.day], SecondDaily)) =>
        /\ call.event = FirstDaily => ~Contains(her_availabilities[call.day], SecondDaily)
        /\ call.event = SecondDaily => ~Contains(her_availabilities[call.day], FirstDaily)

(* C9 amended: pop_event(day, event) removes one occurrence of event from  *)
(* day and nothing else: on a day containing both FirstDaily and           *)
(* SecondDaily, popping one of the two leaves the other.                   *)
C9_PopEventAlone ==
    (call.op = "pop_event" /\ HasEntry(call.day)) =>
        /\ IsLessOneOf(her_availabilities[call.day], before[call.day], {call.event})
        /\ (/\ Contains(before[call.day], FirstDaily)
            /\ Contains(before[call.day], SecondDaily)
            /\ call.event \in {FirstDaily, SecondDaily}) =>
               /\ call.popped = call.event
               /\ Contains(her_availabilities[call.day], FirstDaily)
                    \/ Contains(her_availabilities[call.day], SecondDaily)
               /\ Count(her_availabilities[call.day], FirstDaily)
                    + Count(her_availabilities[call.day], SecondDaily)
                  = Count(before[call.day], FirstDaily)
                    + Count(before[call.day], SecondDaily) - 1

C9_Witness ==
    /\ call.op = "pop_event" /\ call.event = FirstDaily
    /\ HasEntry(call.day)
    /\ before[call.day] = AllFour
    /\ her_availabilities[call.day] = <<FirstNightly, SecondDaily, SecondNightly>>

(* C10: update_availabilities(day, event) changes the availability on      *)
(* day-1, day and day+1 only, adds no event to any day, creates no entry,  *)
(* and leaves every other day exactly as it was.                           *)
C10_Frame ==
    Updated =>
        /\ DOMAIN her_availabilities = DOMAIN before
        /\ \A d \in DOMAIN before :
              /\ IsSubsequence(her_availabilities[d], before[d])
              /\ d \notin {call.day - 1, call.day, call.day + 1} =>
                    her_availabilities[d] = before[d]

C10_Witness ==
    /\ Updated
    /\ HasEntry(call.day) /\ ~HasEntry(call.day - 1)
    /\ HasEntry(call.day + 2)
    /\ before[call.day + 2] # <<>>
    /\ her_availabilities[call.day + 2] = before[call.day + 2]
    /\ her_availabilities # before
    /\ DOMAIN her_availabilities = DOMAIN before

----------------------------------------------------------------------------
(* The selection functions.                                                *)

GotDays == call.op = "get_days_with_least_availabilities"

(* the persons whose entry of the day holds the event *)
CandidateSet(avs, day, event) ==
    {name \in DOMAIN avs : day \in DOMAIN avs[name] /\ Contains(avs[name][day], event)}

IsLexical(names) ==
    \A p, q \in 1..Len(names) : p < q => NameRank(names[p]) < NameRank(names[q])

(* r is what the claim on get_days_with_least_availabilities describes *)
IsLeastAvailabilities(r, avs, within_days, event) ==
    LET given == {within_days[p] : p \in 1..Len(within_days)}
        count(d) == Cardinality(CandidateSet(avs, d, event))
    IN  /\ {r[p][1] : p \in 1..Len(r)}
              = {d \in given : \A other \in given : count(d) <= count(other)}
        /\ \A p, q \in 1..Len(r) : p < q => r[p][1] < r[q][1]
        /\ \A p \in 1..Len(r) :
              /\ {r[p][2][q] : q \in 1..Len(r[p][2])} = CandidateSet(avs, r[p][1], event)
              /\ Len(r[p][2]) = count(r[p][1])
              /\ IsLexical(r[p][2])
        /\ (\E d \in given : count(d) = 0) =>
              /\ \A p \in 1..Len(r) : r[p][2] = <<>>
              /\ {r[p][1] : p \in 1..Len(r)} = {d \in given : count(d) = 0}

(* C11: get_days_with_least_availabilities returns exactly the given days  *)
(* whose number of candidates for the event is the minimum over the given  *)
(* days, in ascending date order, each with its candidates in lexical      *)
(* order; when some day has no candidate the returned days are those with  *)
(* an empty candidate list.                                                *)
C11_LeastAvailabilities ==
    /\ GotDays =>
          IsLeastAvailabilities(call.result, availabilities, call.within_days, call.event)
    /\ \A k \in 1..Len(stack) :
          stack[k].at # "enter" =>
              IsLeastAvailabilities(stack[k].days_and_names, stack[k].availabilities,
                                    GetEmptyDays(stack[k].calendar, stack[k].event),
                                    stack[k].event)

C11_Witness ==
    /\ GotDays
    /\ call.within_days = <<1, 2, 3>>
    /\ call.result = <<<<2, <<"Bob", "Charlie">>>>, <<3, <<"Bob", "Charlie">>>>>>

(* the number of roster days on which the name holds any of the events *)
Load(name, cal) ==
    Cardinality({d \in DOMAIN cal.days : \E e \in EventSet : cal.days[d][e] = name})

PositionIn(names, name) == CHOOSE p \in 1..Len(names) : names[p] = name

(* sorted is names in ascending load, equal loads in the order of names *)
IsByLeastOnCall(sorted, names, cal) ==
    /\ Len(sorted) = Len(names)
    /\ {sorted[p] : p \in 1..Len(sorted)} = {names[p] : p \in 1..Len(names)}
    /\ \A p, q \in 1..Len(sorted) :
          p < q =>
              \/ Load(sorted[p], cal) < Load(sorted[q], cal)
              \/ /\ Load(sorted[p], cal) = Load(sorted[q], cal)
                 /\ PositionIn(names, sorted[p]) < PositionIn(names, sorted[q])

(* the names of the frames of find_next are sorted so, and the name given  *)
(* to the call in progress is the one at name_index                        *)
FramesByLeastOnCall ==
    \A k \in 1..Len(stack) :
        stack[k].at \in {"name", "call"} =>
            /\ IsByLeastOnCall(stack[k].sorted_by_least_on_call,
                               stack[k].days_and_names[stack[k].day_index][2],
                               stack[k].calendar)
            /\ IsLexical(stack[k].days_and_names[stack[k].day_index][2])
            /\ stack[k].name_index \in 1..Len(stack[k].sorted_by_least_on_call)
            /\ (stack[k].at = "call" /\ k < Len(stack)) =>
                  stack[k + 1].assigned =
                      <<stack[k].days_and_names[stack[k].day_index][1],
                        stack[k].sorted_by_least_on_call[stack[k].name_index]>>

(* a frame starts a day with the first name and goes on with the next one *)
NextNameInOrder ==
    (stack' # stack /\ stack' # <<>> /\ stack'[Len(stack')].at = "name") =>
        LET k == Len(stack')
            f == stack'[k]
        IN  IF k <= Len(stack) /\ stack[k].at = "call"
               /\ stack[k].day_index = f.day_index
            THEN f.name_index = stack[k].name_index + 1
            ELSE f.name_index = 1

IsExempt(day, next_day, event) ==
    /\ event \in SecondLevel
    /\ \/ Weekday(day) \in {"Saturday", "Sunday"}
       \/ Weekday(next_day) \in {"Saturday", "Sunday"}

(* two consecutive entries on calendar-adjacent days, each with exactly    *)
(* one candidate, the same one, and not exempt                             *)
HasStoppingPair(days_and_names, event) ==
    \E p \in 1..(Len(days_and_names) - 1) :
        /\ days_and_names[p + 1][1] = days_and_names[p][1] + 1
        /\ Len(days_and_names[p][2]) = 1
        /\ Len(days_and_names[p + 1][2]) = 1
        /\ days_and_names[p][2][1] = days_and_names[p + 1][2][1]
        /\ ~IsExempt(days_and_names[p][1], days_and_names[p + 1][1], event)

(* C13: check_for_premature_stop is true iff the date-ordered list has two *)
(* consecutive entries on calendar-adjacent days, each with exactly one    *)
(* candidate, the same one, that are not exempt; find_next goes on to the  *)
(* days of the list only when there is no such pair.                       *)
C13_PrematureStop ==
    /\ call.op = "check_for_premature_stop" =>
          call.result = HasStoppingPair(call.days_and_names, call.event)
    /\ \A k \in 1..Len(stack) :
          stack[k].at # "enter" =>
              ~HasStoppingPair(stack[k].days_and_names, stack[k].event)

(* Sunday-Monday is exempt for a second-level event, Monday-Tuesday is not *)
C13_Witness ==
    /\ call.op = "check_for_premature_stop"
    /\ call.event = SecondDaily
    /\ Len(call.days_and_names) = 3
    /\ Weekday(call.days_and_names[1][1]) = "Sunday"
    /\ \A p \in 1..3 : call.days_and_names[p] = <<call.days_and_names[1][1] + p - 1, <<"Alice">>>>
    /\ call.result = TRUE

----------------------------------------------------------------------------
(* find_next called on the availabilities of the unit tests.               *)

(* find_next called on scenario s has returned *)
FoundNext(s) ==
    /\ pc = "find_next" /\ stack = <<>> /\ ret # <<>>
    /\ input = s.availabilities
    /\ calendar = NewCalendar(s.from, s.to)

(* the assignees of the event for the days of the roster, in date order *)
Assignees(cal, event) == [p \in 1..(cal.to - cal.from + 1) |-> GetFor(cal, cal.from + p - 1, event)]

(* C14: FirstDaily over 1-3 January 2025, Alice available on days 1 and 3  *)
(* and Bob on day 2: find_next from an empty roster assigns Alice, Bob,    *)
(* Alice and leaves no unfilled day for FirstDaily.                        *)
C14_TwoPersons ==
    FoundNext(TwoPersons) =>
        /\ Assignees(ret[1].calendar, FirstDaily) = <<"Alice", "Bob", "Alice">>
        /\ GetEmptyDays(ret[1].calendar, FirstDaily) = <<>>
        /\ DOMAIN ret[1].calendar.days = 1..3

C14_Witness ==
    /\ FoundNext(TwoPersons)
    /\ Contains(input["Alice"][1], FirstDaily) /\ Contains(input["Alice"][3], FirstDaily)
    /\ Contains(input["Bob"][2], FirstDaily)
    /\ input["Alice"][2] = <<>> /\ input["Bob"][1] = <<>> /\ input["Bob"][3] = <<>>
    /\ ret[1].calendar.days[2][FirstDaily] = "Bob"

(* C15: FirstDaily over 1-7 January 2025, Alice available on days 1, 2, 3, *)
(* 4 and 7, Bob on days 3, 6 and 7, Charlie on days 2, 5 and 6: find_next  *)
(* from an empty roster returns a roster with no unfilled day whose        *)
(* assignees are Alice, Charlie, Bob, Alice, Charlie, Bob, Alice.          *)
C15_ThreePersons ==
    FoundNext(ThreePersons) =>
        /\ Assignees(ret[1].calendar, FirstDaily)
              = <<"Alice", "Charlie", "Bob", "Alice", "Charlie", "Bob", "Alice">>
        /\ GetEmptyDays(ret[1].calendar, FirstDaily) = <<>>
        /\ DOMAIN ret[1].calendar.days = 1..7

C15_Witness ==
    /\ FoundNext(ThreePersons)
    /\ {d \in 1..7 : Contains(input["Alice"][d], FirstDaily)} = {1, 2, 3, 4, 7}
    /\ {d \in 1..7 : Contains(input["Bob"][d], FirstDaily)} = {3, 6, 7}
    /\ {d \in 1..7 : Contains(input["Charlie"][d], FirstDaily)} = {2, 5, 6}
    /\ ret[1].calendar.days[7][FirstDaily] = "Alice"
    /\ ret[1].recursion_depth = 7

----------------------------------------------------------------------------
(* Determinism.                                                            *)

(* C16: the roster does not depend on the order in which the map of the    *)
(* persons is enumerated: get_days_with_least_availabilities gives the     *)
(* same list under every enumeration, for a direct call and for every call *)
(* of find_next that goes on to the names of a day.                        *)
C16_EnumerationOrder ==
    /\ GotDays =>
          \A order \in Enumerations(availabilities) :
              GetDaysEnumerated(availabilities, order, call.within_days, call.event)
                  = call.result
    /\ (stack # <<>> /\ Top.at = "name" /\ Top.name_index = 1) =>
          \A order \in Enumerations(Top.availabilities) :
              GetDaysEnumerated(Top.availabilities, order,
                                GetEmptyDays(Top.calendar, Top.event), Top.event)
                  = Top.days_and_names

C16_Witness ==
    /\ GotDays
    /\ call.order = <<"Charlie", "Alice", "Bob">>
    /\ \E p \in 1..Len(call.result) : call.result[p][2] = <<"Alice", "Bob", "Charlie">>

----------------------------------------------------------------------------
(* The escalation of make_calendar.                                        *)

(* make_calendar has just injected the subcontractor of round i - 1 *)
Injected == result = "Err" /\ i > 0 /\ pc \in {"try_all_permutations", "returned"}

SubcoName(round) == "EXT-" \o ToString(round)

(* the (day, event) the last injection targets *)
Target == MostProblematic(problematic_days)

(* C17: the subcontractor injected for (day d, event e) is available for e *)
(* on d and for nothing else: it is a candidate for (d, e) and for no      *)
(* other (day, event) pair.                                                *)
C17_SubcontractorScope ==
    Injected =>
        LET subco == SubcoName(i - 1)
        IN  /\ subco \in DOMAIN availabilities
            /\ subco \in Candidates(availabilities, Target[1], Target[2])
            /\ \A d \in DOMAIN calendar.days : \A e \in EventSet :
                  <<d, e>> # Target => subco \notin Candidates(availabilities, d, e)

(* the synthetic persons of the maker *)
Synthetic == (DOMAIN availabilities) \ (DOMAIN input)

InAttempt == pc \in {"try_all_permutations", "make_calendar_for_event", "find_next"}

(* attempt i runs with the i subcontractors EXT-0 .. EXT-(i-1) beside the *)
(* persons of the input, whose availabilities are as they were read       *)
AttemptStaff ==
    /\ i <= max_subcontractor
    /\ Synthetic = {SubcoName(k) : k \in 0..(i - 1)}
    /\ Cardinality(Synthetic) = i
    /\ \A name \in DOMAIN input : availabilities[name] = input[name]

(* a step in which try_all_permutations returns its failure to make_calendar *)
AttemptFails ==
    /\ pc = "find_next"
    /\ pc' \notin {"find_next", "make_calendar_for_event"}
    /\ result' = "Err"

(* the step adds exactly one person and leaves the others as they were *)
OneMorePerson ==
    /\ DOMAIN availabilities \subseteq DOMAIN availabilities'
    /\ Cardinality((DOMAIN availabilities') \ (DOMAIN availabilities)) = 1
    /\ \A name \in DOMAIN availabilities : availabilities'[name] = availabilities[name]

InjectsAndRetries ==
    AttemptFails =>
        /\ OneMorePerson
        /\ (i < max_subcontractor => pc' = "try_all_permutations")

StaysReturned == pc = "returned" => pc' = "returned"

(* C18: make_calendar searches at most max_subcontractor + 1 times and     *)
(* stops at the first success; every failed attempt adds exactly one       *)
(* synthetic person and leaves the others alone, so that attempt k runs    *)
(* with exactly k synthetic persons, and an injection made while           *)
(* k < max_subcontractor is followed by a retry.                           *)
C18_Escalation ==
    /\ [](InAttempt => AttemptStaff)
    /\ [](result = "Ok" => pc = "returned")
    /\ [][InjectsAndRetries /\ StaysReturned]_vars

(* make_calendar has returned its failure outcome *)
FailureReturned == pc = "returned" /\ result = "Err"

(* make_calendar was aborted by the unwrap() of line 68 *)
Aborted == pc = "panicked"

(* C19: when every attempt fails make_calendar ends without aborting, in a *)
(* failure outcome where problematic_days is the map of the last failed    *)
(* attempt and the roster is the one make_calendar was started with.       *)
C19_FailureOutcome ==
    /\ ~Aborted
    /\ FailureReturned =>
          /\ problematic_days = t_problematic_days
          /\ calendar = NewCalendar(calendar.from, calendar.to)
          /\ i = max_subcontractor + 1

(* a step in which the solver has failed for the event of a permutation *)
EventFails ==
    /\ pc = "find_next" /\ stack = <<>> /\ ret # <<>>
    /\ pc' # "find_next"
    /\ ~IsSolved(ForEventCalendar, CurrentEvent)

(* the step counts a problematic (day, event) pair for the failed event *)
RecordsProblematicPair ==
    \E day \in DOMAIN calendar.days :
        LET key == <<day, CurrentEvent>>
        IN  /\ key \in DOMAIN t_problematic_days'
            /\ \/ key \notin DOMAIN t_problematic_days
               \/ t_problematic_days'[key] = t_problematic_days[key] + 1

(* C20: whenever the solver fails for an event inside a permutation a      *)
(* problematic (day, event) pair is recorded, so the map returned by       *)
(* try_all_permutations on failure is never empty and make_calendar always *)
(* finds a most problematic pair to target.                                *)
C20_ProblematicRecorded ==
    /\ [][EventFails => RecordsProblematicPair]_vars
    /\ [](result = "Err" => DOMAIN problematic_days # {})

----------------------------------------------------------------------------
(* The allocations taken before the search.                                *)

Allocated == pc = "take_initial_allocations" /\ call.applied # <<>>

LastAllocation == call.applied[Len(call.applied)]

(* the allocation is a second-level one on a Friday, Saturday or Sunday *)
InWeekendException(a) ==
    /\ a.event \in {SecondDaily, SecondNightly}
    /\ Weekday(a.day) \in {"Friday", "Saturday", "Sunday"}

(* C21: an allocation (day, event, name) taken before the search makes name *)
(* the assignee of (day, event) and updates her availabilities as           *)
(* update_availabilities does for a decision of the search: outside the     *)
(* second-level weekend exception her entries of day-1, day and day+1 are   *)
(* empty.                                                                   *)
C21_InitialAllocation ==
    Allocated =>
        LET a == LastAllocation
        IN  /\ GetFor(calendar, a.day, a.event) = a.name
            /\ availabilities[a.name] = UpdateAvailabilities(before, a.day, a.event)
            /\ DOMAIN availabilities[a.name] = DOMAIN before
            /\ ~InWeekendException(a) =>
                  \A d \in {a.day - 1, a.day, a.day + 1} :
                      d \in DOMAIN before => availabilities[a.name][d] = <<>>

(* Alice, available for everything on the three days, was allocated the    *)
(* first level of the middle day                                           *)
C21_Witness ==
    /\ Allocated
    /\ ~InWeekendException(LastAllocation)
    /\ LastAllocation.day = calendar.from + 1
    /\ \A d \in DOMAIN before : Len(before[d]) = Len(Event)
    /\ \A d \in DOMAIN before : availabilities[LastAllocation.name][d] = <<>>

----------------------------------------------------------------------------
(* The roster during the search.                                           *)

(* every entry of roster `given` is in roster `cal`, with the same name *)
Extends(cal, given) ==
    \A d \in DOMAIN given.days : \A e \in EventSet :
        given.days[d][e] # None =>
            d \in DOMAIN cal.days /\ cal.days[d][e] = given.days[d][e]

SameRange(cal, given) ==
    /\ cal.from = given.from /\ cal.to = given.to
    /\ DOMAIN cal.days = given.from..given.to

(* the call of frame k was made after setting an unfilled (day, event) of *)
(* the caller's roster, and nothing else                                  *)
AssignedUnfilled(k) ==
    stack[k].assigned # <<>> =>
        /\ k > 1
        /\ GetFor(stack[k - 1].calendar, stack[k].assigned[1], stack[k].event) = None
        /\ stack[k].calendar =
              SetFor(stack[k - 1].calendar, stack[k].assigned[1], stack[k].event,
                     stack[k].assigned[2])

(* C22: the search never overwrites or removes an entry of the roster: it  *)
(* assigns unfilled (day, event) pairs only, every entry of the roster it  *)
(* was handed is, with the same name, in every roster of the search and in *)
(* the one it returns, and the days of the roster stay the date range.     *)
C22_EntriesKept ==
    pc = "find_next" =>
        /\ \A k \in 1..Len(stack) :
              /\ Extends(stack[k].calendar, calendar)
              /\ SameRange(stack[k].calendar, calendar)
              /\ AssignedUnfilled(k)
              /\ k > 1 => Extends(stack[k].calendar, stack[k - 1].calendar)
        /\ ret # <<>> =>
              /\ Extends(ret[1].calendar, calendar)
              /\ SameRange(ret[1].calendar, calendar)

(* the search returned a roster that holds an allocation taken before it   *)
(* and, on the same day, an entry of its own                               *)
C22_Witness ==
    /\ pc = "find_next" /\ stack = <<>> /\ ret # <<>>
    /\ \E d \in DOMAIN calendar.days : \E e1, e2 \in EventSet :
          /\ calendar.days[d][e1] # None
          /\ calendar.days[d][e2] = None
          /\ ret[1].calendar.days[d][e2] # None

----------------------------------------------------------------------------
(* The reading of the level rows.                                          *)

(* her_availabilities is what from_str and the merges built from call.rows *)
RowsRead == pc = "from_str" /\ call.op \in {"from_str", "merge"}

RowsOfTokens(n) == \A r \in 1..Len(call.rows) : Len(call.rows[r].tokens) = n

(* a row of level L has a non-empty token at the position of day d *)
SomeRowHas(L, d) ==
    \E r \in 1..Len(call.rows) :
        /\ LevelOf(call.rows[r].level) = L
        /\ call.rows[r].tokens[d - call.from + 1] # ""

C24_SetUnion ==
    /\ RowsRead => NoRepeatedEvent(her_availabilities)
    /\ (pc = "from_str" /\ call.op = "pop_event") =>
          ~Contains(her_availabilities[call.day], call.event)

(* what from_lines has built from the contents *)
LinesRead == pc = "from_lines" /\ call.op = "from_lines"

(* C25: from_lines on the header 'JANVIER,2025,1,2,3,4,5' and the rows      *)
(* 'Alice,1ère SF jour,,,,x,x' and 'Alice,1ère SF nuit,x,,,x,' builds a     *)
(* roster of 5 days from 1 January 2025 and, for Alice, exactly            *)
(* [FirstDaily] on day 1 and exactly [FirstNightly] on day 5.              *)
C25_TestFromLines ==
    (LinesRead /\ call.content = TestFromLines) =>
        /\ calendar = NewCalendar(1, 5)
        /\ "Alice" \in DOMAIN availabilities
        /\ availabilities["Alice"][1] = <<FirstDaily>>
        /\ availabilities["Alice"][5] = <<FirstNightly>>

----------------------------------------------------------------------------
(* The roster: get_empty_days, set_for and get_for.                        *)

Elements(v) == {v[p] : p \in 1..Len(v)}

IsAscending(v) == \A p, q \in 1..Len(v) : p < q => v[p] < v[q]

(* the days of the range where get_for finds no assignee for the event *)
Unassigned(cal, e) == {d \in cal.from..cal.to : GetFor(cal, d, e) = None}

EmptyDaysAreUnassigned(cal) ==
    \A e \in EventSet :
        /\ IsAscending(GetEmptyDays(cal, e))
        /\ Elements(GetEmptyDays(cal, e)) = Unassigned(cal, e)

(* a step of take_initial_allocations that calls set_for *)
SetsFor == pc = "take_initial_allocations" /\ Len(call'.applied) = Len(call.applied) + 1

SetForEffect ==
    LET a == call'.applied[Len(call'.applied)]
    IN  /\ GetFor(calendar', a.day, a.event) = a.name
        /\ \A e \in EventSet \ {a.event} : GetEmptyDays(calendar', e) = GetEmptyDays(calendar, e)
        /\ Elements(GetEmptyDays(calendar', a.event)) =
              Elements(GetEmptyDays(calendar, a.event)) \ {a.day}
        /\ \A d \in DOMAIN calendar.days : \A e \in EventSet :
              <<d, e>> # <<a.day, a.event>> => GetFor(calendar', d, e) = GetFor(calendar, d, e)

(* C26: get_empty_days(e) is, in ascending order, exactly the days of the   *)
(* range without an assignee for e: every day for each event of a new      *)
(* roster; set_for on a (day, e) of the range takes exactly that day out   *)
(* of get_empty_days(e), changes the result of no other event and makes    *)
(* get_for(day, e) the name, the last one if it is repeated.               *)
C26_EmptyDays ==
    /\ [](pc = "take_initial_allocations" =>
            /\ EmptyDaysAreUnassigned(calendar)
            /\ call.applied = <<>> =>
                  \A e \in EventSet :
                      GetEmptyDays(calendar, e) = SortedDays(calendar.from..calendar.to))
    /\ [](pc = "find_next" => \A k \in 1..Len(stack) : EmptyDaysAreUnassigned(stack[k].calendar))
    /\ [][SetsFor => SetForEffect]_vars

(* the same (day, event) was set twice, for two names: the second is the   *)
(* assignee and the day is the only one out of get_empty_days(event)       *)
C26_Witness ==
    /\ pc = "take_initial_allocations" /\ Len(call.applied) = 2
    /\ call.applied[1].day = call.applied[2].day
    /\ call.applied[1].event = call.applied[2].event
    /\ call.applied[1].name # call.applied[2].name
    /\ GetFor(calendar, call.applied[2].day, call.applied[2].event) = call.applied[2].name
    /\ Len(GetEmptyDays(calendar, call.applied[2].event)) = NSeedDays - 1

----------------------------------------------------------------------------
(* The search for one event.                                               *)

(* some sequence of valid assignments, each to a person still available    *)
(* for the event on the day and each followed by update_availabilities,    *)
(* fills every unfilled day of the event                                   *)
RECURSIVE Fillable(_, _, _)
Fillable(avs, cal, event) ==
    \/ Unassigned(cal, event) = {}
    \/ \E d \in Unassigned(cal, event) : \E name \in CandidateSet(avs, d, event) :
          Fillable([avs EXCEPT ![name] = UpdateAvailabilities(avs[name], d, event)],
                   SetFor(cal, d, event, name), event)

(* the call of the innermost frame is at its start *)
Entering == pc = "find_next" /\ stack # <<>> /\ Top.at = "enter"

(* check_for_premature_stop is true on what the call selects *)
Pruned(f) ==
    /\ GetEmptyDays(f.calendar, f.event) # <<>>
    /\ CheckForPrematureStop(
           GetDaysWithLeastAvailabilities(f.availabilities,
                                          GetEmptyDays(f.calendar, f.event), f.event),
           f.event)

(* a step in which the call of the innermost frame returns *)
Returns == pc = "find_next" /\ stack # <<>> /\ Len(stack') = Len(stack) - 1

Filled(cal, event) == Unassigned(cal, event) = {}

(* C27: the pruning rule is sound: where check_for_premature_stop is true  *)
(* in the search, no sequence of valid assignments fills the remaining     *)
(* days of the event, and find_next succeeds on the same inputs with the   *)
(* rule as the same search without it.                                     *)
C27_PruningSound ==
    /\ [](Entering =>
            /\ Pruned(Top) => ~Fillable(Top.availabilities, Top.calendar, Top.event)
            /\ FindNextSolves(Top.availabilities, Top.calendar, Top.event, TRUE)
                  = FindNextSolves(Top.availabilities, Top.calendar, Top.event, FALSE))
    /\ [][Returns =>
            (Filled(ret'[1].calendar, Top.event)
                <=> FindNextSolves(Top.availabilities, Top.calendar, Top.event, FALSE))]_vars

(* a call made by the search, after an assignment, is stopped by the rule *)
C27_Witness ==
    /\ Entering /\ Len(stack) > 1
    /\ Pruned(Top)

(* C28: find_next is complete for one event: it returns a roster with no   *)
(* unfilled day of the event if some sequence of valid assignments fills   *)
(* every unfilled day from the availabilities and the roster it is given,  *)
(* and fails only if there is none.                                        *)
C28_Complete ==
    [][Returns =>
          (Filled(ret'[1].calendar, Top.event)
              <=> Fillable(Top.availabilities, Top.calendar, Top.event))]_vars

(* a search that had several days to fill and, on the first one, several   *)
(* candidates has returned a roster where the event is filled              *)
C28_Witness ==
    /\ pc = "find_next" /\ stack = <<>> /\ ret # <<>>
    /\ \E e \in EventSet :
          /\ Filled(ret[1].calendar, e)
          /\ Cardinality(Unassigned(calendar, e)) = NSelDays
          /\ Cardinality(CandidateSet(availabilities, calendar.from, e)) > 1

(* the frames that are in `stack` before and after the step *)
KeptFrames == 1..(IF Len(stack') < Len(stack) THEN Len(stack') ELSE Len(stack))

(* the call of frame k was given the caller's roster and availabilities,   *)
(* changed by the one assignment the caller made for it                    *)
StartsFromCaller(k) ==
    k > 1 =>
        LET day == stack[k].assigned[1]
            name == stack[k].assigned[2]
        IN  /\ stack[k].calendar = SetFor(stack[k - 1].calendar, day, stack[k].event, name)
            /\ stack[k].availabilities =
                  [stack[k - 1].availabilities EXCEPT
                      ![name] = UpdateAvailabilities(@, day, stack[k].event)]

(* C29: when find_next fails to fill the event, the roster and the         *)
(* availabilities it returns are exactly those it was given: nothing of    *)
(* the branches it explored is retained, and each sibling branch starts    *)
(* from the caller's unmodified state.                                     *)
C29_FailureReturnsInput ==
    /\ [][Returns =>
            (~Filled(ret'[1].calendar, Top.event) =>
                /\ ret'[1].calendar = Top.calendar
                /\ ret'[1].availabilities = Top.availabilities)]_vars
    /\ [][pc = "find_next" =>
            \A k \in KeptFrames :
                /\ stack'[k].calendar = stack[k].calendar
                /\ stack'[k].availabilities = stack[k].availabilities]_vars
    /\ [](pc = "find_next" => \A k \in 1..Len(stack) : StartsFromCaller(k))

(* the call made for a second day of the group has returned a failure with *)
(* the roster it was given, and the caller still holds the roster and the  *)
(* availabilities the search started from                                  *)
C29_Witness ==
    /\ pc = "find_next" /\ Len(stack) = 1 /\ ret # <<>>
    /\ Top.at = "call" /\ Top.day_index = 2
    /\ ~Filled(ret[1].calendar, Top.event)
    /\ ret[1].calendar # Top.calendar
    /\ Top.calendar = calendar /\ Top.availabilities = availabilities

(* a step in which find_next returns after the call for the last candidate *)
(* of the last day of the group has failed                                 *)
ReturnsExhausted ==
    /\ Returns /\ Top.at = "call" /\ ret # <<>>
    /\ ~Filled(ret[1].calendar, Top.event)
    /\ Top.name_index = Len(Top.sorted_by_least_on_call)
    /\ Top.day_index = Len(Top.days_and_names)

(* C30: when find_next has tried every candidate of every day of the group *)
(* and every call failed, it returns the failure with, as problematic day, *)
(* the day it attempted last, the last day of the group.                   *)
C30_LastAttemptedDay ==
    [][ReturnsExhausted =>
          ret'[1].problematic_day = <<Top.days_and_names[Len(Top.days_and_names)][1]>>]_vars

(* the unfilled days of the event of a call for which nobody is a candidate *)
DeadDays(avs, cal, event) ==
    {d \in Unassigned(cal, event) : CandidateSet(avs, d, event) = {}}

Earliest(S) == CHOOSE d \in S : \A other \in S : d <= other

(* C31: when some unfilled day has no candidate for the event, find_next   *)
(* makes no assignment at that node: it returns at once the roster and the *)
(* availabilities it was given, the event still unfilled, with as          *)
(* problematic day the earliest unfilled day that has no candidate.        *)
C31_ZeroCandidates ==
    [][(Entering /\ DeadDays(Top.availabilities, Top.calendar, Top.event) # {}) =>
          /\ stack' = Caller
          /\ ret' # <<>>
          /\ ret'[1].calendar = Top.calendar
          /\ ret'[1].availabilities = Top.availabilities
          /\ ~Filled(ret'[1].calendar, Top.event)
          /\ ret'[1].problematic_day =
                <<Earliest(DeadDays(Top.availabilities, Top.calendar, Top.event))>>]_vars

(* the outermost call has returned at once with a problematic day that has *)
(* no candidate, an earlier unfilled day having candidates and a later one *)
(* having none                                                             *)
C31_Witness ==
    /\ pc = "find_next" /\ stack = <<>> /\ ret # <<>>
    /\ ret[1].calendar = calendar /\ ret[1].recursion_depth = 1
    /\ ret[1].problematic_day # <<>>
    /\ \E e \in EventSet :
          LET dead == DeadDays(availabilities, calendar, e)
              day == ret[1].problematic_day[1]
          IN  /\ day \in dead
              /\ \E later \in dead : later > day
              /\ \E earlier \in Unassigned(calendar, e) :
                    earlier < day /\ CandidateSet(availabilities, earlier, e) # {}

(* the events of the permutation in progress that have been solved *)
IsPrefix(s, t) == Len(s) <= Len(t) /\ s = SubSeq(t, 1, Len(s))

InRound == pc \in {"make_calendar_for_event", "find_next"}

(* make_calendar_for_event has returned to the loop of try_all_permutations *)
EventReturns == pc = "find_next" /\ stack = <<>> /\ ret # <<>>

EventFailsHere == EventReturns /\ ~Filled(ret[1].calendar, CurrentEvent)

(* C32: in try_all_permutations every permutation starts from the maker's  *)
(* own roster and availabilities, whatever the failed permutations before  *)
(* it did; within a permutation the events are searched in its order, each *)
(* from what the event before it returned, and after an event fails no     *)
(* later event of the permutation is attempted.                            *)
C32_PermutationsIndependent ==
    /\ [](InRound =>
            /\ perm \in 1..Len(EventPermutations)
            /\ IsPrefix(solution_found_for_event, EventPermutations[perm])
            /\ Len(solution_found_for_event) < Len(Event)
            /\ \A p \in 1..Len(solution_found_for_event) :
                  Filled(t_calendar, solution_found_for_event[p])
            /\ solution_found_for_event = <<>> =>
                  t_calendar = calendar /\ t_availabilities = availabilities)
    /\ [][InRound /\ pc' \in {"make_calendar_for_event", "find_next"} =>
            calendar' = calendar /\ availabilities' = availabilities]_vars
    /\ [][pc = "make_calendar_for_event" =>
            /\ Len(stack') = 1
            /\ stack'[1].event = EventPermutations[perm][Len(solution_found_for_event) + 1]
            /\ stack'[1].calendar = t_calendar
            /\ stack'[1].availabilities = t_availabilities
            /\ stack'[1].at = "enter"]_vars
    /\ [][(EventReturns /\ ~EventFailsHere /\ pc' = "make_calendar_for_event") =>
            /\ perm' = perm
            /\ solution_found_for_event' = Append(solution_found_for_event, CurrentEvent)
            /\ t_calendar' = ret[1].calendar
            /\ t_availabilities' = ret[1].availabilities]_vars
    /\ [][EventFailsHere =>
            \/ /\ pc' = "make_calendar_for_event"
               /\ perm' = perm + 1 /\ solution_found_for_event' = <<>>
               /\ t_calendar' = calendar /\ t_availabilities' = availabilities
            \/ /\ pc' \in {"try_all_permutations", "returned", "panicked"}
               /\ perm = Len(EventPermutations)]_vars

(* a permutation that does not start with the first event is at its second *)
(* event, on the roster its first event returned, which is no longer the   *)
(* maker's; the permutations before it failed and a problematic day was    *)
(* recorded                                                                *)
C32_Witness ==
    /\ pc = "make_calendar_for_event" /\ perm >= 7
    /\ Len(solution_found_for_event) >= 1
    /\ t_calendar # calendar /\ t_availabilities # availabilities
    /\ DOMAIN t_problematic_days # {}

(* a step in which make_calendar adds a subcontractor after a failed round *)
Injects == AttemptFails /\ pc' # "panicked"

(* the recorded pairs for which add_subco_for_this_day_and_event gives the *)
(* entry the step has added under the name of the round                    *)
ChosenPairs ==
    {key \in DOMAIN problematic_days' :
        /\ SubcoName(i) \in DOMAIN availabilities'
        /\ availabilities'[SubcoName(i)] =
              FromStr(calendar.from, SubcoLine(calendar, key[1], key[2]))}

IsMaximal(pd, key) == \A other \in DOMAIN pd : pd[other] <= pd[key]

(* C33: after a failed round the (day, event) pair for which the           *)
(* subcontractor is injected is one whose recorded count is maximal among  *)
(* the problematic pairs recorded in that round.                           *)
C33_MostProblematicChosen ==
    [][Injects =>
          /\ \E key \in ChosenPairs : IsMaximal(problematic_days', key)
          /\ calendar.from < calendar.to =>
                \A key \in ChosenPairs : IsMaximal(problematic_days', key)]_vars

(* a subcontractor has been injected after a round over two days that      *)
(* recorded pairs with different counts                                    *)
C33_Witness ==
    /\ Injected /\ calendar.from < calendar.to
    /\ SubcoName(i - 1) \in DOMAIN availabilities
    /\ \E key, other \in DOMAIN problematic_days :
          problematic_days[key] < problematic_days[other]

(* the count of a pair, 0 for a pair that is not recorded *)
CountOf(pd, key) == IF key \in DOMAIN pd THEN pd[key] ELSE 0

(* a step in which an event fails with a problematic day *)
FailsWithProblematicDay == EventFailsHere /\ ret[1].problematic_day # <<>>

(* C34: the count stored for a (day, event) pair is the number of the      *)
(* permutations of the round whose search failed with that pair as         *)
(* problematic: the map is empty when the round starts, a failure with the *)
(* pair adds one to its count and nothing else changes a count; a count is *)
(* at most 24 and never wraps around its 8 bits.                           *)
C34_CountsFailures ==
    /\ [][pc = "try_all_permutations" => DOMAIN t_problematic_days' = {}]_vars
    /\ [][FailsWithProblematicDay =>
            LET key == <<ret[1].problematic_day[1], CurrentEvent>>
            IN  /\ DOMAIN t_problematic_days' = (DOMAIN t_problematic_days) \cup {key}
                /\ t_problematic_days'[key] = CountOf(t_problematic_days, key) + 1
                /\ \A other \in (DOMAIN t_problematic_days) \ {key} :
                      t_problematic_days'[other] = t_problematic_days[other]]_vars
    /\ [][(InRound /\ ~FailsWithProblematicDay) =>
            t_problematic_days' = t_problematic_days]_vars
    /\ [](\A key \in DOMAIN t_problematic_days :
            t_problematic_days[key] \in 0..Len(EventPermutations))
    /\ [](\A key \in DOMAIN problematic_days :
            problematic_days[key] \in 0..Len(EventPermutations))

UnfilledCount(cal, event) == Cardinality(Unassigned(cal, event))

(* every call in progress has strictly fewer unfilled days of the event    *)
(* than its caller, and its depth is at most the number of days that were  *)
(* unfilled when the search started                                        *)
DepthBounded ==
    pc = "find_next" =>
        /\ \A k \in 2..Len(stack) :
              UnfilledCount(stack[k].calendar, stack[k].event)
                  < UnfilledCount(stack[k - 1].calendar, stack[k - 1].event)
        /\ \A k \in 1..Len(stack) :
              /\ stack[k].recursion_depth = k - 1
              /\ stack[k].recursion_depth
                    <= UnfilledCount(stack[1].calendar, stack[1].event)

(* the rounds and the permutations stay within their loops *)
RoundsBounded ==
    /\ InAttempt => i <= max_subcontractor
    /\ InRound => perm \in 1..Len(EventPermutations)
    /\ i <= max_subcontractor + 1

(* a round never comes back and, within a round, neither does a permutation *)
GoesForward ==
    /\ i' >= i
    /\ (InRound /\ pc' \in {"make_calendar_for_event", "find_next"}) =>
          i' = i /\ perm' >= perm

Terminated == pc \in {"returned", "panicked"}

(* C35: find_next terminates: each call has strictly fewer unfilled days   *)
(* of the event than its caller, so the depth of the recursion is at most  *)
(* the number of days unfilled at the start; make_calendar terminates      *)
(* after at most max_subcontractor + 1 rounds of 24 permutations.          *)
C35_Terminates ==
    /\ []DepthBounded
    /\ []RoundsBounded
    /\ [][GoesForward]_vars
    /\ [][(pc = "find_next" /\ pc' # "find_next") => (stack = <<>> /\ ret # <<>>)]_vars
    /\ <>Terminated

(* make_calendar has returned after failing max_subcontractor + 1 rounds,  *)
(* the greatest number there is                                            *)
C35_Witness ==
    /\ pc = "returned" /\ result = "Err"
    /\ max_subcontractor = MaxSubcontractor
    /\ i = max_subcontractor + 1
    /\ perm = Len(EventPermutations)

====
